---- MODULE Spec2Model ----
(***************************************************************************)
(* Conway's Game of Life service: the sparse evolution engine              *)
(* (game-engine.ts) and the cycle-detection driver (cycle-detector.ts).    *)
(*                                                                         *)
(* A Coordinates value is the string "row,col"; it is modelled as the      *)
(* sequence of its characters, each a one-character string, so that        *)
(* createCoordinates / parseCoordinates, the default Array.sort() order    *)
(* and JSON.stringify are computed the way the code computes them.         *)
(***************************************************************************)
EXTENDS Integers, Sequences, FiniteSets, TLC

\* ---------------------------------------------------------------- bounds

\* Largest number of rows / columns of an enumerated seed matrix.
MaxRows == 3
MaxCols == 3
\* Largest number of cells (rows * cols) of an enumerated seed matrix.
MaxArea == 9
\* Largest maxAttempts tried with the enumerated seed matrices.
MaxAttempts == 7
\* Largest maxAttempts tried with the named pattern seeds.
MaxAttemptsLong == 24
\* Boards compared with each other are built from arrays of at most MaxInserts
\* pairs [row, col] with row < PairRows and col < PairCols.
PairRows == 3
PairCols == 1
MaxInserts == 2
\* The repository is given matrices of at most RepoMaxArea cells and two of
\* the named patterns, generations up to MaxGenerations and those around the
\* first intermediate cache write, and a fault in one of the first
\* MaxFaultPosition backend calls of an operation.
RepoMaxArea == 2
MaxGenerations == 1
MaxFaultPosition == 6
\* A streaming session is opened with maxAttempts from -1 to
\* MaxSessionAttempts, written in decimal, or with a text that is no number.
MaxSessionAttempts == 3
\* At most MaxCalls repository calls are made by concurrent callers.
MaxCalls == 3
\* A board of at most ViewMaxArea cells hands out its state; the heap holds at
\* most MaxObjects Sets, the board's own included.
ViewMaxArea == 2
MaxObjects == 2

\* The route of R3 is asked for the generations -1..MaxRouteGenerations.
MaxRouteGenerations == 2

\* The singleton of the WebSocket server sees at most MaxWsEvents calls and
\* close callbacks.
MaxWsEvents == 6

\* One client constructs at most MaxSockets WebSockets.
MaxSockets == 5

\* ------------------------------------------------------- program constants

\* cycle-detector.ts: const maxHistorySize = 20
maxHistorySize == 20

\* maxAttemptsSchema: .max(100000, 'Max attempts cannot exceed 100000')
MaxAttemptsLimit == 100000

\* websocket-client.ts: private readonly maxReconnectAttempts = 3
maxReconnectAttempts == 3

\* ------------------------------------------------ strings (shared/types.ts)

Digits == <<"0", "1", "2", "3", "4", "5", "6", "7", "8", "9">>

\* UTF-16 code unit of a character that can occur in a Coordinates string or
\* in the JSON text of an array of them.
CharCode(ch) ==
    CASE ch = "\"" -> 34
      [] ch = ","  -> 44
      [] ch = "-"  -> 45
      [] ch = "["  -> 91
      [] ch = "]"  -> 93
      [] OTHER     -> 47 + (CHOOSE d \in 1..10 : Digits[d] = ch)

RECURSIVE NatToString(_)
NatToString(n) ==
    IF n < 10 THEN <<Digits[n + 1]>>
    ELSE NatToString(n \div 10) \o <<Digits[(n % 10) + 1]>>

\* `${n}` for an integer n.
NumberToString(n) ==
    IF n < 0 THEN <<"-">> \o NatToString(-n) ELSE NatToString(n)

RECURSIVE DigitsToNat(_)
DigitsToNat(s) ==
    IF s = <<>> THEN 0
    ELSE 10 * DigitsToNat(SubSeq(s, 1, Len(s) - 1))
         + (CharCode(s[Len(s)]) - 48)

\* Number(s) for the decimal text of an integer.
StringToNumber(s) ==
    IF s # <<>> /\ s[1] = "-" THEN -DigitsToNat(Tail(s)) ELSE DigitsToNat(s)

\* s.split(','): the parts of s between its commas.
RECURSIVE SplitComma(_)
SplitComma(s) ==
    IF \A k \in 1..Len(s) : s[k] # ","
    THEN <<s>>
    ELSE LET k == CHOOSE j \in 1..Len(s) :
                      s[j] = "," /\ \A m \in 1..(j - 1) : s[m] # ","
         IN  <<SubSeq(s, 1, k - 1)>> \o SplitComma(SubSeq(s, k + 1, Len(s)))

createCoordinates(row, col) ==
    NumberToString(row) \o <<",">> \o NumberToString(col)

parseCoordinates(coords) ==
    LET parts == SplitComma(coords)
    IN  <<StringToNumber(parts[1]), StringToNumber(parts[2])>>

\* ------------------------------------------------------ Cell (game-engine.ts)

Cell(row, col) == [row |-> row, col |-> col]

\* The eight Moore neighbours; the code returns them as an array of eight
\* distinct cells, which is used only to be iterated.
getNeighborPositions(cell) ==
    { Cell(cell.row + dr, cell.col + dc) :
        <<dr, dc>> \in (({-1, 0, 1} \X {-1, 0, 1}) \ {<<0, 0>>}) }

toCoordinates(cell) == createCoordinates(cell.row, cell.col)

isWithinBounds(cell, dimensions) ==
    /\ cell.row >= 0
    /\ cell.row < dimensions.rows
    /\ cell.col >= 0
    /\ cell.col < dimensions.cols

fromCoordinates(coords) ==
    LET rc == parseCoordinates(coords) IN Cell(rc[1], rc[2])

\* -------------------------------------------------- GameRules (game-engine.ts)

\* A rules engine that also lets a dead cell with two neighbours be born.
shouldBeAliveBirthOnTwo(isCurrentlyAlive, neighborCount) ==
    neighborCount = 2 \/ neighborCount = 3

shouldBeAlive(isCurrentlyAlive, neighborCount) ==
    IF isCurrentlyAlive
    THEN neighborCount = 2 \/ neighborCount = 3
    ELSE neighborCount = 3

\* -------------------------------------------------- GameBoard (game-engine.ts)

\* new GameBoard(state, dimensions)
GameBoard(state, dimensions) == [state |-> state, dimensions |-> dimensions]

Dimensions(rows, cols) == [rows |-> rows, cols |-> cols]

isCellAlive(board, cell) == toCoordinates(cell) \in board.state

countLiveNeighbors(board, cell) ==
    Cardinality({ n \in getNeighborPositions(cell) :
                    isWithinBounds(n, board.dimensions) /\ isCellAlive(board, n) })

\* Adds every neighbour, in bounds or not.
getCellsToEvaluateUnbounded(board) ==
    UNION { {coords} \cup
            { toCoordinates(n) : n \in getNeighborPositions(fromCoordinates(coords)) } :
            coords \in board.state }

getCellsToEvaluate(board) ==
    UNION { {coords} \cup
            { toCoordinates(n) :
                n \in { m \in getNeighborPositions(fromCoordinates(coords)) :
                          isWithinBounds(m, board.dimensions) } } :
            coords \in board.state }

\* The body of calculateNextGeneration's loop for one cell of the evaluation
\* set: the arguments handed to shouldBeAlive and its answer.
evaluateCell(board, coords) ==
    LET cell          == fromCoordinates(coords)
        isAlive       == isCellAlive(board, cell)
        neighborCount == countLiveNeighbors(board, cell)
    IN  [coords        |-> coords,
         isAlive       |-> isAlive,
         neighborCount |-> neighborCount,
         alive         |-> shouldBeAlive(isAlive, neighborCount)]

evaluations(board) ==
    { evaluateCell(board, coords) : coords \in getCellsToEvaluate(board) }

\* Evaluates the live cells only, so nothing is ever born.
calculateNextGenerationLiveOnly(board) ==
    GameBoard({ coords \in board.state :
                  evaluateCell(board, coords).alive },
              board.dimensions)

calculateNextGeneration(board) ==
    GameBoard({ e.coords : e \in { x \in evaluations(board) : x.alive } },
              board.dimensions)

\* The value of an array slot that was never assigned.
Hole == -1

Max(a, b) == IF a >= b THEN a ELSE b

\* One row of toDenseArray(): `cols` zeros, then 1 at every live column of
\* the row; assigning past the end lengthens a JavaScript array and leaves
\* holes, assigning a negative index does not touch the elements.
denseRow(cells, r, cols) ==
    LET hits == { p[2] : p \in { q \in cells : q[1] = r /\ q[2] >= 0 } }
        len  == IF hits = {} THEN cols
                ELSE Max(cols, 1 + (CHOOSE h \in hits : \A g \in hits : g <= h))
    IN  [c \in 1..len |->
           IF (c - 1) \in hits THEN 1 ELSE IF c <= cols THEN 0 ELSE Hole]

\* toDenseArray() with the two indices exchanged: dense[cell.col][cell.row].
toDenseArrayTransposed(board) ==
    LET cells == { <<p[2], p[1]>> :
                     p \in { parseCoordinates(coords) : coords \in board.state } }
    IN  [r \in 1..board.dimensions.rows |->
           denseRow(cells, r - 1, board.dimensions.cols)]

toDenseArray(board) ==
    LET cells == { parseCoordinates(coords) : coords \in board.state }
    IN  [r \in 1..board.dimensions.rows |->
           denseRow(cells, r - 1, board.dimensions.cols)]

\* input: a sequence of rows, each a sequence of 0/1 (a BoardInput).
fromDenseArray(input) ==
    LET rows == Len(input)
        cols == IF rows > 0 THEN Len(input[1]) ELSE 0
    IN  GameBoard(UNION { { createCoordinates(row, col) :
                              col \in { c \in 0..(Len(input[row + 1]) - 1) :
                                          input[row + 1][c + 1] = 1 } } :
                          row \in 0..(rows - 1) },
                  Dimensions(rows, cols))

\* a < b in the order of the default Array.prototype.sort(): by UTF-16 code
\* units, a proper prefix first.
RECURSIVE StringLess(_, _)
StringLess(a, b) ==
    IF b = <<>> THEN FALSE
    ELSE IF a = <<>> THEN TRUE
    ELSE IF a[1] # b[1] THEN CharCode(a[1]) < CharCode(b[1])
    ELSE StringLess(Tail(a), Tail(b))

\* Array.from(set).sort()
RECURSIVE SortStrings(_)
SortStrings(S) ==
    IF S = {} THEN <<>>
    ELSE LET least == CHOOSE x \in S : \A y \in S \ {x} : StringLess(x, y)
         IN  <<least>> \o SortStrings(S \ {least})

\* JSON.stringify of an array of strings that need no escaping.
RECURSIVE JoinQuoted(_)
JoinQuoted(strings) ==
    IF strings = <<>> THEN <<>>
    ELSE <<"\"">> \o strings[1] \o <<"\"">>
         \o (IF Len(strings) > 1 THEN <<",">> ELSE <<>>)
         \o JoinQuoted(Tail(strings))

JSONStringify(strings) == <<"[">> \o JoinQuoted(strings) \o <<"]">>

\* Array.from(this.state).sort(), then JSON.stringify.
toStateHash(board) == JSONStringify(SortStrings(board.state))

\* A JavaScript Set iterates in insertion order: `order` is that order, a
\* sequence without repetition.  Set.prototype.add:
SetAdd(order, value) ==
    IF \E k \in 1..Len(order) : order[k] = value THEN order
    ELSE Append(order, value)

\* for (const [row, col] of state) sparse.add(createCoordinates(row, col))
RECURSIVE addAll(_, _)
addAll(order, state) ==
    IF state = <<>> THEN order
    ELSE addAll(SetAdd(order, createCoordinates(state[1][1], state[1][2])),
                Tail(state))

\* The iteration order of the Set that fromSparseArray(state, ...) builds.
insertionOrder(state) == addAll(<<>>, state)

fromSparseArray(state, dimensions) ==
    LET order == insertionOrder(state)
    IN  GameBoard({ order[k] : k \in 1..Len(order) }, dimensions)

\* Array.prototype.sort() with the default comparison, on an array of
\* strings: each element is put after the sorted elements not greater than
\* it.
RECURSIVE ArraySort(_)
ArraySort(array) ==
    IF array = <<>> THEN <<>>
    ELSE LET rest   == ArraySort(Tail(array))
             before == Cardinality({ k \in 1..Len(rest) :
                                       ~ StringLess(array[1], rest[k]) })
         IN  SubSeq(rest, 1, before) \o <<array[1]>>
             \o SubSeq(rest, before + 1, Len(rest))

\* toStateHash() without the sort: JSON.stringify(Array.from(this.state)).
toStateHashUnsorted(order) == JSONStringify(order)

\* toStateHash() of a board whose Set iterates in `order`.
toStateHashInOrder(order) == JSONStringify(ArraySort(order))

\* this.equals(other)
equals(this, other) ==
    IF Cardinality(this.state) # Cardinality(other.state) THEN FALSE
    ELSE \A coord \in this.state : coord \in other.state

\* ------------------------------------------------------------------ inputs

\* ----------------------------------------------- JSON (cache entry values)

\* JSON.stringify of an integer (depth 0), of an array of integers (depth 1)
\* or of an array of such arrays (depth 2); an array is a sequence.
RECURSIVE stringifyValue(_, _), stringifyElements(_, _)
stringifyValue(value, depth) ==
    IF depth = 0 THEN NumberToString(value)
    ELSE <<"[">> \o stringifyElements(value, depth - 1) \o <<"]">>

stringifyElements(array, depth) ==
    IF array = <<>> THEN <<>>
    ELSE stringifyValue(array[1], depth)
         \o (IF Len(array) > 1 THEN <<",">> ELSE <<>>)
         \o stringifyElements(Tail(array), depth)

\* JSON.stringify of a dense matrix or of an array of [row, col] pairs.
stringifyMatrix(matrix) == stringifyValue(matrix, 2)

\* The characters of a string literal of the source.
Chars(literal) ==
    CASE literal = "state"      -> <<"s", "t", "a", "t", "e">>
      [] literal = "dimensions" -> <<"d", "i", "m", "e", "n", "s", "i", "o", "n", "s">>
      [] literal = "rows"       -> <<"r", "o", "w", "s">>
      [] literal = "cols"       -> <<"c", "o", "l", "s">>

\* "key":
stringifyKey(key) == <<"\"">> \o Chars(key) \o <<"\"", ":">>

\* JSON.stringify({ state, dimensions })
stringifyBoard(state, dimensions) ==
    <<"{">> \o stringifyKey("state") \o stringifyMatrix(state) \o <<",">>
    \o stringifyKey("dimensions") \o <<"{">>
    \o stringifyKey("rows") \o stringifyValue(dimensions.rows, 0) \o <<",">>
    \o stringifyKey("cols") \o stringifyValue(dimensions.cols, 0)
    \o <<"}", "}">>

\* The first position from `at` on that holds no character of a number.
RECURSIVE numberEnd(_, _)
numberEnd(text, at) ==
    IF at > Len(text) THEN at
    ELSE IF text[at] = "-" \/ \E d \in 1..10 : Digits[d] = text[at]
         THEN numberEnd(text, at + 1)
         ELSE at

\* JSON.parse of the value that starts at position `at` of text: the value
\* and the position after it.
RECURSIVE parseValue(_, _), parseElements(_, _, _)
parseValue(text, at) ==
    IF text[at] = "["
    THEN IF text[at + 1] = "]"
         THEN [value |-> <<>>, next |-> at + 2]
         ELSE parseElements(text, at + 1, <<>>)
    ELSE LET end == numberEnd(text, at)
         IN  [value |-> StringToNumber(SubSeq(text, at, end - 1)), next |-> end]

parseElements(text, at, done) ==
    LET element == parseValue(text, at)
    IN  IF text[element.next] = ","
        THEN parseElements(text, element.next + 1, Append(done, element.value))
        ELSE [value |-> Append(done, element.value), next |-> element.next + 1]

\* JSON.parse of a whole array text.
parseArray(text) == parseValue(text, 1).value

\* The position after "key": when it starts at position `at`.
afterKey(text, at, key) == at + Len(stringifyKey(key))

\* const { state, dimensions } = JSON.parse(cached)
parseBoard(text) ==
    LET state == parseValue(text, afterKey(text, 2, "state"))
        rows  == parseValue(text, afterKey(text,
                     afterKey(text, state.next + 1, "dimensions") + 1, "rows"))
        cols  == parseValue(text, afterKey(text, rows.next + 1, "cols"))
    IN  [state |-> state.value,
         dimensions |-> Dimensions(rows.value, cols.value)]


\* Every rows x cols matrix of 0/1 within the bounds; with no row at all the
\* matrix is empty whatever the number of columns.
SmallMatrices ==
    UNION { [1..r -> [1..c -> {0, 1}]] :
            <<r, c>> \in { d \in (0..MaxRows) \X (0..MaxCols) :
                             /\ d[1] * d[2] <= MaxArea
                             /\ (d[1] = 0 => d[2] = 0) } }

\* The rows x cols matrix whose live cells are `cells` (pairs <<row, col>>).
Pattern(rows, cols, cells) ==
    [r \in 1..rows |-> [c \in 1..cols |-> IF <<r - 1, c - 1>> \in cells THEN 1 ELSE 0]]

\* cycle-detector.spec.ts: BLOCK_PATTERN, BLINKER_PATTERN, TOAD_PATTERN,
\* GLIDER_PATTERN.
BLOCK_PATTERN   == Pattern(4, 4, {<<1, 1>>, <<1, 2>>, <<2, 1>>, <<2, 2>>})
BLINKER_PATTERN == Pattern(5, 5, {<<1, 2>>, <<2, 2>>, <<3, 2>>})
TOAD_PATTERN    == Pattern(6, 6, {<<2, 2>>, <<2, 3>>, <<2, 4>>,
                                  <<3, 1>>, <<3, 2>>, <<3, 3>>})
GLIDER_PATTERN  == Pattern(8, 8, {<<1, 2>>, <<2, 3>>, <<3, 1>>, <<3, 2>>, <<3, 3>>})

\* A T-tetromino on a 7 x 7 board: after a transient of three generations
\* it enters a cycle of period 20, so the recurrence is found only after
\* the history buffer has dropped its oldest entries.
TETROMINO_PATTERN == Pattern(7, 7, {<<2, 2>>, <<2, 3>>, <<2, 4>>, <<3, 3>>})

\* A T-tetromino of that cycle: a pure oscillator of period 20 on 7 x 7.
TETROMINO_CYCLE == Pattern(7, 7, {<<1, 3>>, <<2, 2>>, <<2, 3>>, <<2, 4>>})

NamedPatterns ==
    { BLOCK_PATTERN, BLINKER_PATTERN, TOAD_PATTERN, GLIDER_PATTERN,
      TETROMINO_PATTERN, TETROMINO_CYCLE }

\* A pure oscillator of period 21 on 11 x 17: a burloaferimeter (period 7)
\* beside half a pulsar against the top edge (period 3).
OSCILLATOR_21 ==
    Pattern(11, 17, {<<0, 4>>, <<0, 5>>, <<0, 13>>, <<0, 14>>, <<0, 15>>,
                     <<1, 5>>, <<1, 11>>, <<1, 16>>, <<2, 4>>, <<2, 11>>,
                     <<2, 16>>, <<3, 3>>, <<3, 5>>, <<3, 6>>, <<3, 7>>,
                     <<3, 11>>, <<3, 16>>, <<4, 3>>, <<4, 8>>, <<5, 0>>,
                     <<5, 1>>, <<5, 3>>, <<5, 5>>, <<5, 6>>, <<5, 7>>,
                     <<5, 9>>, <<5, 13>>, <<5, 14>>, <<5, 15>>, <<6, 0>>,
                     <<6, 1>>, <<6, 3>>, <<6, 8>>, <<7, 4>>, <<7, 5>>,
                     <<7, 6>>, <<7, 7>>, <<9, 4>>, <<9, 5>>, <<10, 4>>,
                     <<10, 5>>})

\* A pure oscillator of period 56 on 5 x 8.
OSCILLATOR_56 == Pattern(5, 8, {<<1, 1>>, <<2, 2>>, <<2, 3>>, <<3, 1>>})

\* Seeds whose period is beyond the history buffer.
LongOscillators == { OSCILLATOR_21, OSCILLATOR_56 }

\* A seed on 6 x 6 whose first fixed point is generation 22.
LONG_TRANSIENT == Pattern(6, 6, {<<0, 2>>, <<1, 1>>, <<1, 2>>, <<1, 3>>})

\* Seeds whose runs outlast the history buffer.
LongInputs == LongOscillators \cup { LONG_TRANSIENT }

\* ------------------------------------------------------------------- state

VARIABLES
    input,        \* the dense matrix the board was built from
    board,        \* engine: the GameBoard being evolved
    previous,     \* engine: <<b>>, the board the last step was computed from
    ruleCalls,    \* engine: the calls of shouldBeAlive made by the last step
    maxAttempts,  \* detectCycle: its maxAttempts argument (initialBoard is board)
    pc,           \* detectCycle: "idle", "called", "loop" or "returned"
    currentBoard, \* detectCycle: let currentBoard
    generation,   \* detectCycle: let generation
    i,            \* detectCycle: the loop counter
    stateHistory, \* detectCycle: const stateHistory
    progress,     \* the calls of onProgress so far, in order
    result,       \* what detectCycle returned
    computed,     \* the number of generations detectCycle has computed
    thisBoard,    \* comparison: the board equals() is called on
    thisOrder,    \* comparison: the iteration order of thisBoard's Set
    otherBoard,   \* comparison: the argument of equals()
    otherOrder,   \* comparison: the iteration order of otherBoard's Set
    built,        \* comparison: which of "this", "other" are constructed
    database,     \* repository: the documents of the boards collection
    cacheEntries, \* repository: the cache, key |-> [value, ttl]
    redisClient,  \* repository: whether getRedisClient() returns a client
    backendsFail, \* repository: whether backend calls may throw
    uuids,        \* repository: what the next calls of uuidv4() return
    returnedIds,  \* repository: the ids createBoard returned in a success
    lastCall,     \* repository: the last operation, its result and its calls
    url,          \* session: the query parameters of the connection's URL
    readyState,   \* session: ws.readyState
    frames,       \* session: the messages written with ws.send, in order
    closes,       \* session: the calls of ws.close by the server, in order
    sessionPc,    \* session: "idle", "connected", "loading", "detecting", "done"
    loadResult,   \* session: boardResult, what the awaited getBoardById returned
    calls,        \* concurrent callers: the repository calls made, in order
    heap,         \* aliasing: the Set objects, a reference being an index
    receiver,     \* aliasing: the GameBoard, its state a reference into heap
    views,        \* aliasing: the references getState() has returned
    observed,     \* aliasing: what the last reading method call returned
    response,     \* route: what the last request was answered with
    wss,          \* singleton: let wss, 0 for null, else the instance
    servers,      \* singleton: the number of WebSocketServers constructed
    promises,     \* singleton: the promises shutdown returned, in order
    wsLog,        \* singleton: the calls and close callbacks so far
    sockets,      \* client: the WebSockets it constructed, in order
    clientWs,     \* client: this.ws, 0 for null, else an index of sockets
    reconnectAttempts, \* client: this.reconnectAttempts
    timers,       \* client: the pending callbacks of setTimeout
    lastDelivered, \* client: the callbacks the last step called, in order
    reconnections, \* client: the calls of connect() made by timers
    disconnected  \* client: <<>>, or <<the sockets at the first disconnect()>>

engineVars == <<board, previous, ruleCalls>>

detectorVars ==
    <<maxAttempts, pc, currentBoard, generation, i, stateHistory, progress,
      result, computed>>

pairVars == <<thisBoard, thisOrder, otherBoard, otherOrder, built>>

repoVars ==
    <<database, cacheEntries, redisClient, backendsFail, uuids, returnedIds,
      lastCall>>

sessionVars == <<url, readyState, frames, closes, sessionPc, loadResult>>

raceVars == <<calls>>

\* The state of the layers around the engine, the repository and the session.
viewVars == <<heap, receiver, views, observed>>

httpVars == <<response>>

wsVars == <<wss, servers, promises, wsLog>>

clientVars ==
    <<sockets, clientWs, reconnectAttempts, timers, lastDelivered,
      reconnections, disconnected>>

outerVars == <<raceVars, viewVars, httpVars, wsVars, clientVars>>

\* The outer state a specification of one layer leaves alone.
outsideRace == <<viewVars, httpVars, wsVars, clientVars>>
outsideView == <<raceVars, httpVars, wsVars, clientVars>>
outsideHttp == <<raceVars, viewVars, wsVars, clientVars>>
outsideWs == <<raceVars, viewVars, httpVars, clientVars>>
outsideClient == <<raceVars, viewVars, httpVars, wsVars>>

vars ==
    <<input, engineVars, detectorVars, pairVars, repoVars, sessionVars,
      outerVars>>

\* No result yet.
NoResult == [pending |-> TRUE]

\* The repository before any operation, without a cache client.
EmptyCache == [k \in {} |-> 0]

NoCall ==
    [operation |-> "none", boardId |-> "", generations |-> 0,
     result |-> NoResult, trace |-> <<>>, caught |-> <<>>]

RepoIdle ==
    /\ database = {}
    /\ cacheEntries = EmptyCache
    /\ redisClient = FALSE
    /\ backendsFail = FALSE
    /\ uuids = <<>>
    /\ returnedIds = {}
    /\ lastCall = NoCall

\* No connection is open.
SessionIdle ==
    /\ url = [boardId |-> <<>>, maxAttempts |-> <<>>]
    /\ readyState = "CLOSED"
    /\ frames = <<>>
    /\ closes = <<>>
    /\ sessionPc = "idle"
    /\ loadResult = NoResult

\* No repository call of concurrent callers is in flight.
RaceIdle == calls = <<>>

\* No GameBoard is shared with a client.
ViewIdle ==
    /\ heap = <<>>
    /\ receiver = [state |-> 0, dimensions |-> Dimensions(0, 0)]
    /\ views = {}
    /\ observed = NoResult

\* No request has been answered.
HttpIdle == response = NoResult

\* No WebSocket server has been initialized.
WsIdle ==
    /\ wss = 0
    /\ servers = 0
    /\ promises = <<>>
    /\ wsLog = <<>>

\* No client has been constructed.
ClientIdle ==
    /\ sockets = <<>>
    /\ clientWs = 0
    /\ reconnectAttempts = 0
    /\ timers = 0
    /\ lastDelivered = <<>>
    /\ reconnections = 0
    /\ disconnected = <<>>

OuterIdle == RaceIdle /\ ViewIdle /\ HttpIdle /\ WsIdle /\ ClientIdle

\* The outer layers other than one are idle.
OutsideRaceIdle == ViewIdle /\ HttpIdle /\ WsIdle /\ ClientIdle
OutsideViewIdle == RaceIdle /\ HttpIdle /\ WsIdle /\ ClientIdle
OutsideHttpIdle == RaceIdle /\ ViewIdle /\ WsIdle /\ ClientIdle
OutsideWsIdle == RaceIdle /\ ViewIdle /\ HttpIdle /\ ClientIdle
OutsideClientIdle == RaceIdle /\ ViewIdle /\ HttpIdle /\ WsIdle

\* No board of the comparison is constructed.
PairIdle ==
    /\ thisBoard = GameBoard({}, Dimensions(0, 0))
    /\ thisOrder = <<>>
    /\ otherBoard = GameBoard({}, Dimensions(0, 0))
    /\ otherOrder = <<>>
    /\ built = {}

\* ------------------------------------------------------------ engine steps

EngineInit ==
    /\ input \in SmallMatrices \cup NamedPatterns
    /\ board = fromDenseArray(input)
    /\ previous = <<>>
    /\ ruleCalls = {}
    /\ maxAttempts = 0
    /\ pc = "idle"
    /\ currentBoard = board
    /\ generation = 0
    /\ i = 0
    /\ stateHistory = <<>>
    /\ progress = <<>>
    /\ result = NoResult
    /\ computed = 0
    /\ PairIdle
    /\ RepoIdle
    /\ SessionIdle
    /\ OuterIdle

\* board = board.calculateNextGeneration()
CalculateNextGeneration ==
    /\ board' = calculateNextGeneration(board)
    /\ previous' = <<board>>
    /\ ruleCalls' = { [isCurrentlyAlive |-> e.isAlive,
                       neighborCount    |-> e.neighborCount,
                       result           |-> e.alive] : e \in evaluations(board) }
    /\ UNCHANGED <<input, detectorVars, pairVars, outerVars, repoVars, sessionVars>>

EngineNext == CalculateNextGeneration

EngineSpec == EngineInit /\ [][EngineNext]_vars

\* ----------------------------------------- detectCycle (cycle-detector.ts)

\* The answer of detectOscillation: <<period>>, or <<>> for undefined.
\* Reports the distance one too short.
detectOscillationShort(nextHash, history) ==
    IF \E j \in 1..Len(history) : history[j] = nextHash
    THEN LET j == CHOOSE k \in 1..Len(history) :
                      /\ history[k] = nextHash
                      /\ \A m \in 1..(k - 1) : history[m] # nextHash
         IN  <<Len(history) - (j - 1)>>
    ELSE <<>>

\* j - 1 is the code's 0-based index of the first match.
detectOscillation(nextHash, history) ==
    IF \E j \in 1..Len(history) : history[j] = nextHash
    THEN LET j == CHOOSE k \in 1..Len(history) :
                      /\ history[k] = nextHash
                      /\ \A m \in 1..(k - 1) : history[m] # nextHash
         IN  <<Len(history) - (j - 1) + 1>>
    ELSE <<>>

\* Never recognises a fixed point.
isStableNever(currentHash, nextHash) == FALSE

isStable(currentHash, nextHash) == currentHash = nextHash

\* The validation accepts maxAttempts = 0.
isInvalidMaxAttemptsNegativeOnly(attempts) == attempts < 0

\* if (maxAttempts <= 0)
isInvalidMaxAttempts(attempts) == attempts <= 0

\* The loop runs once more.
loopContinuesInclusive(counter, attempts) == counter <= attempts

\* i < maxAttempts
loopContinues(counter, attempts) == counter < attempts

\* When the buffer is full the newest entry is dropped, not the oldest.
pushHistoryDropNewest(history, currentHash) ==
    LET pushed == Append(history, currentHash)
    IN  IF Len(pushed) > maxHistorySize
        THEN SubSeq(pushed, 1, Len(pushed) - 1)
        ELSE pushed

\* stateHistory.push(currentHash); if over maxHistorySize, shift().
pushHistory(history, currentHash) ==
    LET pushed == Append(history, currentHash)
    IN  IF Len(pushed) > maxHistorySize THEN Tail(pushed) ELSE pushed

Failure(message) == [success |-> FALSE, error |-> message]

Success(data) == [success |-> TRUE, data |-> data]

\* Returns the loop's `generation` (i + 1) with the state of generation i.
stableResultNextGeneration(counter, current) ==
    Success([status |-> "stable", generation |-> counter + 1,
             state |-> toDenseArray(current)])

\* The stable exit of the loop: generation i and the dense currentBoard.
stableResult(counter, current) ==
    Success([status |-> "stable", generation |-> counter,
             state |-> toDenseArray(current)])

oscillatingResult(gen, nextState, period) ==
    Success([status |-> "oscillating", generation |-> gen,
             state |-> nextState, period |-> period])

\* Reports the last value of the loop counter's generation.
timeoutResultLastGeneration(attempts, gen, current) ==
    Success([status |-> "timeout", generation |-> gen - 1,
             state |-> toDenseArray(current)])

timeoutResult(attempts, gen, current) ==
    Success([status |-> "timeout", generation |-> attempts,
             state |-> toDenseArray(current)])

\* onProgress?.(generation, state): the run is observed with a callback that
\* records its arguments.
Emit(log, gen, state) == Append(log, [generation |-> gen, state |-> state])

\* A run detectCycle(fromDenseArray(input), maxAttempts, onProgress) is about
\* to start.
DetectorInit ==
    /\ \/ /\ input \in SmallMatrices
          /\ maxAttempts \in (-1)..MaxAttempts
       \/ /\ input \in NamedPatterns
          /\ maxAttempts \in (-1)..MaxAttemptsLong
    /\ board = fromDenseArray(input)
    /\ previous = <<>>
    /\ ruleCalls = {}
    /\ pc = "called"
    /\ currentBoard = board
    /\ generation = 0
    /\ i = 0
    /\ stateHistory = <<>>
    /\ progress = <<>>
    /\ result = NoResult
    /\ computed = 0
    /\ PairIdle
    /\ RepoIdle
    /\ SessionIdle
    /\ OuterIdle

\* detectCycle up to its loop: the validation, generation 0 and its progress
\* event, the stable seed's early return, generation 1 and its event.
DetectCycleBegin ==
    /\ pc = "called"
    /\ IF isInvalidMaxAttempts(maxAttempts)
       THEN /\ result' = Failure("maxAttempts must be positive (>= 1)")
            /\ pc' = "returned"
            /\ UNCHANGED <<currentBoard, generation, i, stateHistory, progress,
                           computed>>
       ELSE LET initialHash      == toStateHash(board)
                initialNextBoard == calculateNextGeneration(board)
                initialNextHash  == toStateHash(initialNextBoard)
                initialState     == toDenseArray(board)
            IN  /\ computed' = computed + 1
                /\ IF isStable(initialHash, initialNextHash)
                   THEN /\ progress' = Emit(progress, 0, initialState)
                        /\ result' = Success([status |-> "stable", generation |-> 0,
                                              state |-> initialState])
                        /\ pc' = "returned"
                        /\ UNCHANGED <<currentBoard, generation, i, stateHistory>>
                   ELSE /\ stateHistory' = Append(stateHistory, initialHash)
                        /\ currentBoard' = initialNextBoard
                        /\ generation' = 1
                        /\ progress' = Emit(Emit(progress, 0, initialState), 1,
                                            toDenseArray(initialNextBoard))
                        /\ i' = 1
                        /\ pc' = "loop"
                        /\ UNCHANGED result
    /\ UNCHANGED <<input, engineVars, maxAttempts, pairVars, outerVars, repoVars>>

\* One iteration of for (let i = 1; i < maxAttempts; i++).
LoopIteration ==
    /\ pc = "loop"
    /\ loopContinues(i, maxAttempts)
    /\ LET currentHash == toStateHash(currentBoard)
           nextBoard   == calculateNextGeneration(currentBoard)
           nextHash    == toStateHash(nextBoard)
           nextState   == toDenseArray(nextBoard)
           period      == detectOscillation(nextHash, stateHistory)
       IN  /\ computed' = computed + 1
           /\ generation' = i + 1
           /\ progress' = Emit(progress, i + 1, nextState)
           /\ IF isStable(currentHash, nextHash)
              THEN /\ result' = stableResult(i, currentBoard)
                   /\ pc' = "returned"
                   /\ UNCHANGED <<currentBoard, i, stateHistory>>
              ELSE IF period # <<>>
              THEN /\ result' = oscillatingResult(i + 1, nextState, period[1])
                   /\ pc' = "returned"
                   /\ UNCHANGED <<currentBoard, i, stateHistory>>
              ELSE /\ stateHistory' = pushHistory(stateHistory, currentHash)
                   /\ currentBoard' = nextBoard
                   /\ i' = i + 1
                   /\ UNCHANGED <<pc, result>>
    /\ UNCHANGED <<input, engineVars, maxAttempts, pairVars, outerVars, repoVars>>

\* The loop is over: return the timeout result.
ReturnTimeout ==
    /\ pc = "loop"
    /\ ~loopContinues(i, maxAttempts)
    /\ result' = timeoutResult(maxAttempts, generation, currentBoard)
    /\ pc' = "returned"
    /\ UNCHANGED <<input, engineVars, maxAttempts, pairVars, outerVars, repoVars,
                   currentBoard, generation, i,
                   stateHistory, progress, computed>>

\* detectCycle called without a session: nothing is sent anywhere.
Next ==
    \/ DetectCycleBegin /\ UNCHANGED sessionVars
    \/ LoopIteration /\ UNCHANGED sessionVars
    \/ ReturnTimeout /\ UNCHANGED sessionVars

Spec == DetectorInit /\ [][Next]_vars

\* A run of detectCycle on a long-period oscillator with maxAttempts around
\* the length of the history buffer.
LongInit ==
    /\ input \in LongInputs
    /\ maxAttempts \in (MaxAttemptsLong - 4)..MaxAttemptsLong
    /\ board = fromDenseArray(input)
    /\ previous = <<>>
    /\ ruleCalls = {}
    /\ pc = "called"
    /\ currentBoard = board
    /\ generation = 0
    /\ i = 0
    /\ stateHistory = <<>>
    /\ progress = <<>>
    /\ result = NoResult
    /\ computed = 0
    /\ PairIdle
    /\ RepoIdle
    /\ SessionIdle
    /\ OuterIdle

LongSpec == LongInit /\ [][Next]_vars

\* ------------------------------- two boards and their comparison (equals)

\* The arrays of pairs a board is built from: any order, repetitions allowed.
RECURSIVE ArraysOf(_, _)
ArraysOf(S, n) ==
    IF n = 0 THEN { <<>> }
    ELSE LET shorter == ArraysOf(S, n - 1)
         IN  shorter \cup { Append(a, x) : a \in { b \in shorter : Len(b) = n - 1 },
                                           x \in S }

SparseArrays ==
    ArraysOf((0..(PairRows - 1)) \X (0..(PairCols - 1)), MaxInserts)

\* The dimensions the two boards are given: the rectangle of the pairs, a
\* rectangle one row longer, or one a row shorter, which the pairs of the
\* last row lie outside of.
PairDimensions ==
    { Dimensions(PairRows, PairCols), Dimensions(PairRows + 1, PairCols),
      Dimensions(PairRows - 1, PairCols) }

\* No engine and no detector is running.
EngineIdle ==
    /\ input = <<>>
    /\ board = fromDenseArray(input)
    /\ previous = <<>>
    /\ ruleCalls = {}

DetectorIdle ==
    /\ maxAttempts = 0
    /\ pc = "idle"
    /\ currentBoard = board
    /\ generation = 0
    /\ i = 0
    /\ stateHistory = <<>>
    /\ progress = <<>>
    /\ result = NoResult
    /\ computed = 0

EqualityInit ==
    /\ EngineIdle
    /\ DetectorIdle
    /\ PairIdle
    /\ RepoIdle
    /\ SessionIdle
    /\ OuterIdle

\* thisBoard = GameBoard.fromSparseArray(state, dimensions)
BuildThis ==
    /\ "this" \notin built
    /\ \E state \in SparseArrays, dimensions \in PairDimensions :
          /\ thisBoard' = fromSparseArray(state, dimensions)
          /\ thisOrder' = insertionOrder(state)
    /\ built' = built \cup {"this"}
    /\ UNCHANGED <<input, engineVars, detectorVars, repoVars, sessionVars, outerVars,
                   otherBoard, otherOrder>>

\* otherBoard = GameBoard.fromSparseArray(state, dimensions)
BuildOther ==
    /\ "other" \notin built
    /\ \E state \in SparseArrays, dimensions \in PairDimensions :
          /\ otherBoard' = fromSparseArray(state, dimensions)
          /\ otherOrder' = insertionOrder(state)
    /\ built' = built \cup {"other"}
    /\ UNCHANGED <<input, engineVars, detectorVars, repoVars, sessionVars, outerVars,
                   thisBoard, thisOrder>>

EqualityNext == BuildThis \/ BuildOther

EqualitySpec == EqualityInit /\ [][EqualityNext]_vars

\* ------------------------ a GameBoard and the Sets it hands out (getState)

\* Set objects live in a heap, `objects`; a reference is an index into it.
\* `this` is a GameBoard whose state is a reference.

\* Returns the board's own Set.
getStateAlias(objects, this) == [heap |-> objects, value |-> this.state]

\* return new Set(this.state)
getState(objects, this) ==
    [heap |-> Append(objects, objects[this.state]), value |-> Len(objects) + 1]

\* The board as the engine's operators take it.
Receiver == GameBoard(heap[receiver.state], receiver.dimensions)

\* The boards handed to clients.
ViewInputs ==
    { m \in SmallMatrices : Len(m) >= 1 /\ Len(m) * Len(m[1]) <= ViewMaxArea }

\* The coordinates a client adds to or deletes from a Set it was given: those
\* of the board's rectangle and one below it.
ViewCoordinates ==
    { createCoordinates(r, c) :
        <<r, c>> \in (0..receiver.dimensions.rows)
                       \X (0..(receiver.dimensions.cols - 1)) }

ViewInit ==
    /\ input \in ViewInputs
    /\ board = fromDenseArray(input)
    /\ previous = <<>>
    /\ ruleCalls = {}
    /\ DetectorIdle
    /\ PairIdle
    /\ RepoIdle
    /\ SessionIdle
    /\ OutsideViewIdle
    /\ heap = <<fromDenseArray(input).state>>
    /\ receiver = [state |-> 1, dimensions |-> fromDenseArray(input).dimensions]
    /\ views = {}
    /\ observed = NoResult

\* What a reading method returned, and whether a Set handed out differed
\* from the board's at that time.
Observe(method, value) ==
    /\ observed' = [method |-> method, value |-> value,
                    changedView |-> \E ref \in views :
                                       heap[ref] # heap[receiver.state]]
    /\ UNCHANGED <<input, engineVars, detectorVars, pairVars, repoVars,
                   sessionVars, outsideView, heap, receiver, views>>

\* const view = board.getState()
GetState ==
    /\ Len(heap) < MaxObjects
    /\ LET out == getState(heap, receiver)
       IN  /\ heap' = out.heap
           /\ views' = views \cup {out.value}
    /\ UNCHANGED <<input, engineVars, detectorVars, pairVars, repoVars,
                   sessionVars, outsideView, receiver, observed>>

\* board.calculateNextGeneration(): a new board over a new Set, which no
\* client holds.
CallCalculateNextGeneration ==
    Observe("calculateNextGeneration",
            toDenseArray(calculateNextGeneration(Receiver)))

\* board.toDenseArray()
CallToDenseArray == Observe("toDenseArray", toDenseArray(Receiver))

\* board.toStateHash()
CallToStateHash == Observe("toStateHash", toStateHash(Receiver))

\* board.isCellAlive(cell)
CallIsCellAlive ==
    \E r \in 0..(receiver.dimensions.rows - 1),
       c \in 0..(receiver.dimensions.cols - 1) :
        Observe("isCellAlive", <<r, c, isCellAlive(Receiver, Cell(r, c))>>)

\* view.add(coords) on a Set getState() returned
ViewAdd ==
    /\ \E ref \in views, coords \in ViewCoordinates :
          /\ coords \notin heap[ref]
          /\ heap' = [heap EXCEPT ![ref] = @ \cup {coords}]
    /\ UNCHANGED <<input, engineVars, detectorVars, pairVars, repoVars,
                   sessionVars, outsideView, receiver, views, observed>>

\* view.delete(coords) on a Set getState() returned
ViewDelete ==
    /\ \E ref \in views, coords \in ViewCoordinates :
          /\ coords \in heap[ref]
          /\ heap' = [heap EXCEPT ![ref] = @ \ {coords}]
    /\ UNCHANGED <<input, engineVars, detectorVars, pairVars, repoVars,
                   sessionVars, outsideView, receiver, views, observed>>

ViewNext ==
    \/ GetState
    \/ CallCalculateNextGeneration
    \/ CallToDenseArray
    \/ CallToStateHash
    \/ CallIsCellAlive
    \/ ViewAdd
    \/ ViewDelete

ViewSpec == ViewInit /\ [][ViewNext]_vars

\* ------------------------------------- the repository (board.service.ts)

CACHE_TTL_CURRENT == 3600
CACHE_TTL_GENERATION == 86400

\* Every how many generations getStateAtGeneration caches an intermediate
\* state.
intermediateCacheInterval == 10

\* `board:${boardId}:current`
currentKey(boardId) == <<"board", boardId, "current">>

\* The generation keys of all generations are one key.
generationKeyShared(boardId, generations) == <<"board", boardId, "generation">>

\* `board:${boardId}:generation:${generations}`
generationKey(boardId, generations) ==
    <<"board", boardId, "generation", generations>>

\* What a backend call may throw: an Error with a message, or a value that
\* is not an Error.
ThrownValues ==
    { [isError |-> TRUE,  message |-> "Connection failed"],
      [isError |-> FALSE, message |-> "String error"] }

\* The validation error of the board schema.
ValidationError ==
    [isError |-> TRUE, message |-> "Board validation failed"]

\* Which backend call of an operation throws, counted from 1 over the calls
\* the operation makes (those of a nested getBoardById included), and what it
\* throws; position 0: none.
NoFault == [at |-> 0, value |-> [isError |-> FALSE, message |-> ""]]

Faults ==
    {NoFault} \cup { [at |-> n, value |-> v] :
                       n \in 1..MaxFaultPosition, v \in ThrownValues }

\* The faults an operation may meet while the backends are healthy, and
\* while they are not.
FaultsWhen(failing) == IF failing THEN Faults ELSE {NoFault}

\* The world of the repository, w: the boards collection (db), the cache
\* entries (cache), whether getRedisClient() returns a client (redis), and,
\* for one operation, the backend calls it has made (trace) and the values
\* its catch blocks have caught (caught).
throwsNext(w, fault) == fault.at = Len(w.trace) + 1

logCall(w, fault, call, key) ==
    [w EXCEPT !.trace = Append(@, [call  |-> call, key |-> key,
                                   threw |-> throwsNext(w, fault)])]

\* The outcome of a backend call: thrown is <<>> or <<the value thrown>>,
\* value is <<>> (null) or <<the value returned>>.
Outcome(thrown, value, w) == [thrown |-> thrown, value |-> value, w |-> w]

\* await redis.get(key)
redisGet(w, fault, key) ==
    IF throwsNext(w, fault)
    THEN Outcome(<<fault.value>>, <<>>, logCall(w, fault, "get", key))
    ELSE Outcome(<<>>,
                 IF key \in DOMAIN w.cache THEN <<w.cache[key].value>> ELSE <<>>,
                 logCall(w, fault, "get", key))

\* await redis.setEx(key, ttl, text)
redisSetEx(w, fault, key, ttl, text) ==
    IF throwsNext(w, fault)
    THEN Outcome(<<fault.value>>, <<>>, logCall(w, fault, "setEx", key))
    ELSE Outcome(<<>>, <<>>,
                 [logCall(w, fault, "setEx", key) EXCEPT !.cache =
                    [k \in DOMAIN w.cache \cup {key} |->
                       IF k = key THEN [value |-> text, ttl |-> ttl]
                       ELSE w.cache[k]]])

\* The schema of the boards collection: rows and cols required, min 1, and
\* each coordinate a pair.
isValidDocument(document) ==
    /\ document.dimensions.rows >= 1
    /\ document.dimensions.cols >= 1
    /\ \A k \in 1..Len(document.state) : Len(document.state[k]) = 2

\* await BoardModel.create(document): the document is validated before it
\* is sent.
modelCreate(w, fault, document) ==
    IF ~ isValidDocument(document)
    THEN Outcome(<<ValidationError>>, <<>>,
                 [w EXCEPT !.trace = Append(@, [call  |-> "create",
                                                key   |-> document.boardId,
                                                threw |-> TRUE])])
    ELSE IF throwsNext(w, fault)
    THEN Outcome(<<fault.value>>, <<>>,
                 logCall(w, fault, "create", document.boardId))
    ELSE Outcome(<<>>, <<document>>,
                 [logCall(w, fault, "create", document.boardId)
                    EXCEPT !.db = w.db \cup {document}])

\* Finds a document whatever its boardId.
modelFindOneAny(w, fault, boardId) ==
    IF throwsNext(w, fault)
    THEN Outcome(<<fault.value>>, <<>>, logCall(w, fault, "findOne", boardId))
    ELSE Outcome(<<>>,
                 IF w.db # {} THEN <<CHOOSE d \in w.db : TRUE>> ELSE <<>>,
                 logCall(w, fault, "findOne", boardId))

\* await BoardModel.findOne({ boardId }).lean()
modelFindOne(w, fault, boardId) ==
    IF throwsNext(w, fault)
    THEN Outcome(<<fault.value>>, <<>>, logCall(w, fault, "findOne", boardId))
    ELSE Outcome(<<>>,
                 IF \E d \in w.db : d.boardId = boardId
                 THEN <<CHOOSE d \in w.db : d.boardId = boardId>>
                 ELSE <<>>,
                 logCall(w, fault, "findOne", boardId))

\* if (cached): a string that is neither null nor empty.
isTruthy(cached) == cached # <<>> /\ cached[1] # <<>>

\* The message of each operation's catch block for a value that is not an
\* Error.
fallbackMessage(operation) ==
    CASE operation = "createBoard"          -> "Failed to create board"
      [] operation = "getBoardById"         -> "Failed to fetch board"
      [] operation = "getNextGeneration"    -> "Failed to calculate next generation"
      [] operation = "getStateAtGeneration" -> "Failed to calculate generation"

\* The catch block without the instanceof test: always the fallback.
errorMessageAlwaysFallback(value, operation) == fallbackMessage(operation)

\* error instanceof Error ? error.message : '<fallback>'
errorMessage(value, operation) ==
    IF value.isError THEN value.message ELSE fallbackMessage(operation)

\* catch (error) { ... return { success: false, error: message } }
catch(w, value, operation) ==
    [result |-> Failure(errorMessage(value, operation)),
     w      |-> [w EXCEPT !.caught = Append(@, [value |-> value,
                                                by    |-> operation])]]

Return(value, w) == [result |-> value, w |-> w]

\* convertToSparse with the pair written [col, row].
convertToSparseTransposed(matrix) ==
    LET rows == Len(matrix)
        cols == IF rows > 0 THEN Len(matrix[1]) ELSE 0
        positions == [k \in 1..(rows * cols) |->
                        <<(k - 1) \div cols, (k - 1) % cols>>]
        live(p) == /\ p[2] + 1 <= Len(matrix[p[1] + 1])
                   /\ matrix[p[1] + 1][p[2] + 1] = 1
        cells == SelectSeq(positions, live)
    IN  [state      |-> [k \in 1..Len(cells) |-> <<cells[k][2], cells[k][1]>>],
         dimensions |-> Dimensions(rows, cols)]

\* convertToSparse(board): the live cells in row-major order, the number of
\* columns taken from the first row.
convertToSparse(matrix) ==
    LET rows == Len(matrix)
        cols == IF rows > 0 THEN Len(matrix[1]) ELSE 0
        positions == [k \in 1..(rows * cols) |->
                        <<(k - 1) \div cols, (k - 1) % cols>>]
        live(p) == /\ p[2] + 1 <= Len(matrix[p[1] + 1])
                   /\ matrix[p[1] + 1][p[2] + 1] = 1
    IN  [state      |-> SelectSeq(positions, live),
         dimensions |-> Dimensions(rows, cols)]

\* createBoard(boardInput), uuid being what uuidv4() returns.
createBoard(w, fault, boardInput, uuid) ==
    LET sparse  == convertToSparse(boardInput)
        created == modelCreate(w, fault, [boardId    |-> uuid,
                                          state      |-> sparse.state,
                                          dimensions |-> sparse.dimensions])
        cached  == redisSetEx(created.w, fault, currentKey(uuid),
                              CACHE_TTL_CURRENT,
                              stringifyBoard(sparse.state, sparse.dimensions))
    IN  IF created.thrown # <<>>
        THEN catch(created.w, created.thrown[1], "createBoard")
        ELSE IF ~ w.redis THEN Return(Success(uuid), created.w)
        ELSE IF cached.thrown # <<>>
        THEN catch(cached.w, cached.thrown[1], "createBoard")
        ELSE Return(Success(uuid), cached.w)

\* The Board record of a result, without its created and updated dates.
BoardRecord(boardId, state, dimensions) ==
    [boardId |-> boardId, state |-> state, dimensions |-> dimensions]

\* getBoardById(boardId)
getBoardById(w, fault, boardId) ==
    LET lookup == IF w.redis THEN redisGet(w, fault, currentKey(boardId))
                  ELSE Outcome(<<>>, <<>>, w)
        parsed == parseBoard(lookup.value[1])
        found  == modelFindOne(lookup.w, fault, boardId)
        doc    == found.value[1]
        stored == IF w.redis
                  THEN redisSetEx(found.w, fault, currentKey(boardId),
                                  CACHE_TTL_CURRENT,
                                  stringifyBoard(doc.state, doc.dimensions))
                  ELSE Outcome(<<>>, <<>>, found.w)
    IN  IF lookup.thrown # <<>>
        THEN catch(lookup.w, lookup.thrown[1], "getBoardById")
        ELSE IF isTruthy(lookup.value)
        THEN Return(Success(BoardRecord(boardId, parsed.state,
                                        parsed.dimensions)), lookup.w)
        ELSE IF found.thrown # <<>>
        THEN catch(found.w, found.thrown[1], "getBoardById")
        ELSE IF found.value = <<>>
        THEN Return(Failure("Board not found"), found.w)
        ELSE IF stored.thrown # <<>>
        THEN catch(stored.w, stored.thrown[1], "getBoardById")
        ELSE Return(Success(BoardRecord(
                        doc.boardId,
                        [k \in 1..Len(doc.state) |->
                           <<doc.state[k][1], doc.state[k][2]>>],
                        doc.dimensions)), stored.w)

\* getNextGeneration(boardId)
getNextGeneration(w, fault, boardId) ==
    LET cacheKey == generationKey(boardId, 1)
        lookup == IF w.redis THEN redisGet(w, fault, cacheKey)
                  ELSE Outcome(<<>>, <<>>, w)
        boardResult == getBoardById(lookup.w, fault, boardId)
        found == boardResult.result.data
        nextGeneration ==
            toDenseArray(calculateNextGeneration(
                fromSparseArray(found.state, found.dimensions)))
        stored == IF w.redis
                  THEN redisSetEx(boardResult.w, fault, cacheKey,
                                  CACHE_TTL_GENERATION,
                                  stringifyMatrix(nextGeneration))
                  ELSE Outcome(<<>>, <<>>, boardResult.w)
    IN  IF lookup.thrown # <<>>
        THEN catch(lookup.w, lookup.thrown[1], "getNextGeneration")
        ELSE IF isTruthy(lookup.value)
        THEN Return(Success(parseArray(lookup.value[1])), lookup.w)
        ELSE IF ~ boardResult.result.success
        THEN Return(Failure(boardResult.result.error), boardResult.w)
        ELSE IF stored.thrown # <<>>
        THEN catch(stored.w, stored.thrown[1], "getNextGeneration")
        ELSE Return(Success(nextGeneration), stored.w)

\* Writes the state under the key of the generation after it.
cacheIntermediateGenerationNextKey(w, fault, boardId, generations, current) ==
    IF ~ w.redis THEN Outcome(<<>>, <<>>, w)
    ELSE redisSetEx(w, fault, generationKey(boardId, generations + 1),
                    CACHE_TTL_GENERATION,
                    stringifyMatrix(toDenseArray(current)))

\* cacheIntermediateGeneration(boardId, generation, board)
cacheIntermediateGeneration(w, fault, boardId, generations, current) ==
    IF ~ w.redis THEN Outcome(<<>>, <<>>, w)
    ELSE redisSetEx(w, fault, generationKey(boardId, generations),
                    CACHE_TTL_GENERATION,
                    stringifyMatrix(toDenseArray(current)))

\* getCachedGeneration(boardId, generations): null or the parsed matrix.
getCachedGeneration(w, fault, boardId, generations) ==
    LET lookup == redisGet(w, fault, generationKey(boardId, generations))
    IN  IF ~ w.redis THEN Outcome(<<>>, <<>>, w)
        ELSE IF lookup.thrown # <<>> THEN lookup
        ELSE IF isTruthy(lookup.value)
        THEN Outcome(<<>>, <<parseArray(lookup.value[1])>>, lookup.w)
        ELSE Outcome(<<>>, <<>>, lookup.w)

\* The guard of getStateAtGeneration that lets generation 0 through.
rejectsGenerationsNegativeOnly(generations) == generations < 0

\* if (generations < 1)
rejectsGenerations(generations) == generations < 1

\* The loop of getStateAtGeneration from counter on: the board after the
\* loop, or what a cacheIntermediateGeneration call threw.
RECURSIVE advance(_, _, _, _, _, _)
advance(w, fault, boardId, current, counter, generations) ==
    IF ~ (counter < generations) THEN Outcome(<<>>, <<current>>, w)
    ELSE LET next   == calculateNextGeneration(current)
             stored == cacheIntermediateGeneration(w, fault, boardId,
                                                   counter + 1, next)
         IN  IF (counter + 1) % intermediateCacheInterval = 0
             THEN IF stored.thrown # <<>> THEN stored
                  ELSE advance(stored.w, fault, boardId, next, counter + 1,
                               generations)
             ELSE advance(w, fault, boardId, next, counter + 1, generations)

\* getStateAtGeneration(boardId, generations)
getStateAtGeneration(w, fault, boardId, generations) ==
    LET cached == getCachedGeneration(w, fault, boardId, generations)
        boardResult == getBoardById(cached.w, fault, boardId)
        found == boardResult.result.data
        looped == advance(boardResult.w, fault, boardId,
                          fromSparseArray(found.state, found.dimensions),
                          0, generations)
        stored == cacheIntermediateGeneration(looped.w, fault, boardId,
                                              generations, looped.value[1])
    IN  IF rejectsGenerations(generations)
        THEN Return(Failure("Generations must be >= 1"), w)
        ELSE IF cached.thrown # <<>>
        THEN catch(cached.w, cached.thrown[1], "getStateAtGeneration")
        ELSE IF cached.value # <<>>
        THEN Return(Success(cached.value[1]), cached.w)
        ELSE IF ~ boardResult.result.success
        THEN Return(Failure(boardResult.result.error), boardResult.w)
        ELSE IF looped.thrown # <<>>
        THEN catch(looped.w, looped.thrown[1], "getStateAtGeneration")
        ELSE IF stored.thrown # <<>>
        THEN catch(stored.w, stored.thrown[1], "getStateAtGeneration")
        ELSE Return(Success(toDenseArray(looped.value[1])), stored.w)

\* The matrices boards are created from.
RepoInputs ==
    { m \in SmallMatrices : Len(m) = 0 \/ Len(m) * Len(m[1]) <= RepoMaxArea }
    \cup {BLINKER_PATTERN, GLIDER_PATTERN}

\* The matrices boards are created from while backend calls may throw: one
\* the schema rejects, and one live cell.
FaultInputs == { <<>>, <<<<1>>>> }

\* What uuidv4() returns for the board created, and an id it never returns.
MintedId == "12345678-1234-1234-1234-123456789012"
UnknownId == "00000000-0000-0000-0000-000000000000"
BoardIds == {MintedId, UnknownId}

\* The ids asked for: while backend calls may throw, the minted id only,
\* which no board has before createBoard.
BoardIdsWhen(failing) == IF failing THEN {MintedId} ELSE BoardIds

\* The generations asked for: around the guard, and around the first
\* intermediate cache write.
GenerationChoices ==
    ((-1)..MaxGenerations)
    \cup {intermediateCacheInterval, intermediateCacheInterval + 1}

\* The world an operation starts in.
World ==
    [db |-> database, cache |-> cacheEntries, redis |-> redisClient,
     trace |-> <<>>, caught |-> <<>>]

\* The same world with no cache client: getRedisClient() returns null.
WorldWithoutCache == [World EXCEPT !.redis = FALSE]

RepoInit ==
    /\ \/ backendsFail = FALSE /\ input \in RepoInputs /\ redisClient \in BOOLEAN
       \/ backendsFail = TRUE /\ input \in FaultInputs /\ redisClient = TRUE
    /\ board = fromDenseArray(input)
    /\ previous = <<>>
    /\ ruleCalls = {}
    /\ DetectorIdle
    /\ PairIdle
    /\ database = {}
    /\ cacheEntries = EmptyCache
    /\ uuids = <<MintedId>>
    /\ returnedIds = {}
    /\ lastCall = NoCall
    /\ SessionIdle
    /\ OuterIdle

\* The operation returns: its backend effects and what the caller sees.
Returns(operation, boardId, generations, out) ==
    /\ database' = out.w.db
    /\ cacheEntries' = out.w.cache
    /\ lastCall' = [operation |-> operation, boardId |-> boardId,
                    generations |-> generations, result |-> out.result,
                    trace |-> out.w.trace, caught |-> out.w.caught]

\* await createBoard(input)
CreateBoard ==
    /\ uuids # <<>>
    /\ \E fault \in FaultsWhen(backendsFail) :
          LET out == createBoard(World, fault, input, Head(uuids))
          IN  /\ Returns("createBoard", Head(uuids), 0, out)
              /\ returnedIds' = IF out.result.success
                                THEN returnedIds \cup {out.result.data}
                                ELSE returnedIds
    /\ uuids' = Tail(uuids)
    /\ UNCHANGED <<input, engineVars, detectorVars, pairVars, outerVars, sessionVars,
                   redisClient,
                   backendsFail>>

\* await getBoardById(boardId)
GetBoardById ==
    /\ \E boardId \in BoardIdsWhen(backendsFail),
          fault \in FaultsWhen(backendsFail) :
          Returns("getBoardById", boardId, 0,
                  getBoardById(World, fault, boardId))
    /\ UNCHANGED <<input, engineVars, detectorVars, pairVars, outerVars, sessionVars,
                   redisClient,
                   backendsFail, uuids, returnedIds>>

\* await getNextGeneration(boardId)
GetNextGeneration ==
    /\ \E boardId \in BoardIdsWhen(backendsFail),
          fault \in FaultsWhen(backendsFail) :
          Returns("getNextGeneration", boardId, 1,
                  getNextGeneration(World, fault, boardId))
    /\ UNCHANGED <<input, engineVars, detectorVars, pairVars, outerVars, sessionVars,
                   redisClient,
                   backendsFail, uuids, returnedIds>>

\* await getStateAtGeneration(boardId, generations)
GetStateAtGeneration ==
    /\ \E boardId \in BoardIdsWhen(backendsFail),
          generations \in GenerationChoices,
          fault \in FaultsWhen(backendsFail) :
          Returns("getStateAtGeneration", boardId, generations,
                  getStateAtGeneration(World, fault, boardId, generations))
    /\ UNCHANGED <<input, engineVars, detectorVars, pairVars, outerVars, sessionVars,
                   redisClient,
                   backendsFail, uuids, returnedIds>>

\* A cache entry reaches its TTL or is evicted.
Expire ==
    /\ \E key \in DOMAIN cacheEntries :
          cacheEntries' = [k \in DOMAIN cacheEntries \ {key} |-> cacheEntries[k]]
    /\ UNCHANGED <<input, engineVars, detectorVars, pairVars, outerVars, sessionVars,
                   database,
                   redisClient, backendsFail, uuids, returnedIds, lastCall>>

RepoNext ==
    \/ CreateBoard
    \/ GetBoardById
    \/ GetNextGeneration
    \/ GetStateAtGeneration
    \/ Expire

RepoSpec == RepoInit /\ [][RepoNext]_vars

\* ------------------------- concurrent callers of the repository operations

\* A call of a repository operation by one of several concurrent callers,
\* suspended at an await: `at` names the backend call it is about to make,
\* found is <<>> or <<the document findOne returned>>, current is <<>> or
\* <<the board of the loop>>, counter the number of generations computed.
Call(operation, boardId, generations, boardInput, at) ==
    [operation |-> operation, boardId |-> boardId,
     generations |-> generations, boardInput |-> boardInput, at |-> at,
     found |-> <<>>, current |-> <<>>, counter |-> 0, result |-> NoResult]

\* The call returns value.
returnValue(call, value) == [call EXCEPT !.at = "returned", !.result = value]

\* The for loop of getStateAtGeneration from counter on, up to its next
\* await: that of an intermediate write, or that of the final write.
RECURSIVE runLoop(_, _, _)
runLoop(call, current, counter) ==
    IF ~ (counter < call.generations)
    THEN [call EXCEPT !.current = <<current>>, !.counter = counter,
                      !.at = "setGeneration"]
    ELSE LET next == calculateNextGeneration(current)
         IN  IF (counter + 1) % intermediateCacheInterval = 0
             THEN [call EXCEPT !.current = <<next>>, !.counter = counter + 1,
                               !.at = "setIntermediate"]
             ELSE runLoop(call, next, counter + 1)

\* The caller of getBoardById goes on with boardResult: getBoardById itself
\* returns it; getNextGeneration computes the next generation and goes to
\* its cache write; getStateAtGeneration enters its loop.
afterGetBoardById(w, call, boardResult) ==
    LET seed == fromSparseArray(boardResult.data.state,
                                boardResult.data.dimensions)
        next == calculateNextGeneration(seed)
    IN  IF call.operation = "getBoardById" THEN returnValue(call, boardResult)
        ELSE IF ~ boardResult.success
        THEN returnValue(call, Failure(boardResult.error))
        ELSE IF call.operation = "getNextGeneration"
        THEN IF w.redis
             THEN [call EXCEPT !.current = <<next>>, !.at = "setGeneration"]
             ELSE returnValue(call, Success(toDenseArray(next)))
        ELSE runLoop(call, seed, 0)

\* getBoardById is entered: with a cache client it reads the cache first.
enterGetBoardById(w, call) ==
    [call EXCEPT !.at = IF w.redis THEN "getCurrent" ELSE "findOne"]

\* The operation is called and runs to its first await.
enter(w, operation, boardId, generations, boardInput) ==
    LET call == Call(operation, boardId, generations, boardInput, "entered")
    IN  CASE operation = "createBoard" -> [call EXCEPT !.at = "create"]
          [] operation = "getBoardById" -> enterGetBoardById(w, call)
          [] operation = "getNextGeneration" ->
                IF w.redis THEN [call EXCEPT !.at = "getGeneration"]
                ELSE enterGetBoardById(w, call)
          [] operation = "getStateAtGeneration" ->
                IF rejectsGenerations(generations)
                THEN returnValue(call, Failure("Generations must be >= 1"))
                ELSE IF w.redis THEN [call EXCEPT !.at = "getGeneration"]
                ELSE enterGetBoardById(w, call)

\* What a call does when it is resumed: [w |-> the world after its backend
\* call, call |-> the call at its next await or returned].
Resumed(w, call) == [w |-> w, call |-> call]

\* await BoardModel.create({ boardId, state, dimensions })
resumeCreate(w, fault, call) ==
    LET sparse  == convertToSparse(call.boardInput)
        created == modelCreate(w, fault, [boardId    |-> call.boardId,
                                          state      |-> sparse.state,
                                          dimensions |-> sparse.dimensions])
    IN  IF created.thrown # <<>>
        THEN Resumed(created.w,
                     returnValue(call, catch(created.w, created.thrown[1],
                                          "createBoard").result))
        ELSE IF w.redis
        THEN Resumed(created.w, [call EXCEPT !.at = "setCreated"])
        ELSE Resumed(created.w, returnValue(call, Success(call.boardId)))

\* await redis.setEx(cacheKey, CACHE_TTL_CURRENT, ...) of createBoard
resumeSetCreated(w, fault, call) ==
    LET sparse == convertToSparse(call.boardInput)
        cached == redisSetEx(w, fault, currentKey(call.boardId),
                             CACHE_TTL_CURRENT,
                             stringifyBoard(sparse.state, sparse.dimensions))
    IN  IF cached.thrown # <<>>
        THEN Resumed(cached.w,
                     returnValue(call, catch(cached.w, cached.thrown[1],
                                          "createBoard").result))
        ELSE Resumed(cached.w, returnValue(call, Success(call.boardId)))

\* await redis.get(cacheKey) of getNextGeneration and of getCachedGeneration
resumeGetGeneration(w, fault, call) ==
    LET lookup == redisGet(w, fault,
                           generationKey(call.boardId, call.generations))
    IN  IF lookup.thrown # <<>>
        THEN Resumed(lookup.w,
                     returnValue(call, catch(lookup.w, lookup.thrown[1],
                                          call.operation).result))
        ELSE IF isTruthy(lookup.value)
        THEN Resumed(lookup.w,
                     returnValue(call, Success(parseArray(lookup.value[1]))))
        ELSE Resumed(lookup.w, enterGetBoardById(w, call))

\* await redis.get(cacheKey) of getBoardById
resumeGetCurrent(w, fault, call) ==
    LET lookup == redisGet(w, fault, currentKey(call.boardId))
        parsed == parseBoard(lookup.value[1])
    IN  IF lookup.thrown # <<>>
        THEN Resumed(lookup.w,
                     afterGetBoardById(w, call,
                         catch(lookup.w, lookup.thrown[1],
                               "getBoardById").result))
        ELSE IF isTruthy(lookup.value)
        THEN Resumed(lookup.w,
                     afterGetBoardById(w, call,
                         Success(BoardRecord(call.boardId, parsed.state,
                                             parsed.dimensions))))
        ELSE Resumed(lookup.w, [call EXCEPT !.at = "findOne"])

\* The success of getBoardById from the document found.
foundRecord(doc) ==
    Success(BoardRecord(doc.boardId,
                        [k \in 1..Len(doc.state) |->
                           <<doc.state[k][1], doc.state[k][2]>>],
                        doc.dimensions))

\* await BoardModel.findOne({ boardId }).lean()
resumeFindOne(w, fault, call) ==
    LET found == modelFindOne(w, fault, call.boardId)
    IN  IF found.thrown # <<>>
        THEN Resumed(found.w,
                     afterGetBoardById(w, call,
                         catch(found.w, found.thrown[1],
                               "getBoardById").result))
        ELSE IF found.value = <<>>
        THEN Resumed(found.w,
                     afterGetBoardById(w, call, Failure("Board not found")))
        ELSE IF w.redis
        THEN Resumed(found.w, [call EXCEPT !.found = found.value,
                                           !.at = "setCurrent"])
        ELSE Resumed(found.w,
                     afterGetBoardById(w, call, foundRecord(found.value[1])))

\* await redis.setEx(cacheKey, CACHE_TTL_CURRENT, ...) of getBoardById
resumeSetCurrent(w, fault, call) ==
    LET doc    == call.found[1]
        stored == redisSetEx(w, fault, currentKey(call.boardId),
                             CACHE_TTL_CURRENT,
                             stringifyBoard(doc.state, doc.dimensions))
    IN  IF stored.thrown # <<>>
        THEN Resumed(stored.w,
                     afterGetBoardById(w, call,
                         catch(stored.w, stored.thrown[1],
                               "getBoardById").result))
        ELSE Resumed(stored.w, afterGetBoardById(w, call, foundRecord(doc)))

\* Writes the intermediate state under the key of the generation asked for.
resumeSetIntermediateAtFinalKey(w, fault, call) ==
    LET stored == cacheIntermediateGeneration(w, fault, call.boardId,
                                              call.generations,
                                              call.current[1])
    IN  IF stored.thrown # <<>>
        THEN Resumed(stored.w,
                     returnValue(call, catch(stored.w, stored.thrown[1],
                                             call.operation).result))
        ELSE Resumed(stored.w, runLoop(call, call.current[1], call.counter))

\* await cacheIntermediateGeneration(boardId, i + 1, currentBoard) in the loop
resumeSetIntermediate(w, fault, call) ==
    LET stored == cacheIntermediateGeneration(w, fault, call.boardId,
                                              call.counter, call.current[1])
    IN  IF stored.thrown # <<>>
        THEN Resumed(stored.w,
                     returnValue(call, catch(stored.w, stored.thrown[1],
                                          call.operation).result))
        ELSE Resumed(stored.w, runLoop(call, call.current[1], call.counter))

\* The last cache write of getNextGeneration and of getStateAtGeneration.
resumeSetGeneration(w, fault, call) ==
    LET stored == cacheIntermediateGeneration(w, fault, call.boardId,
                                              call.generations,
                                              call.current[1])
    IN  IF stored.thrown # <<>>
        THEN Resumed(stored.w,
                     returnValue(call, catch(stored.w, stored.thrown[1],
                                          call.operation).result))
        ELSE Resumed(stored.w,
                     returnValue(call, Success(toDenseArray(call.current[1]))))

resume(w, fault, call) ==
    CASE call.at = "create"          -> resumeCreate(w, fault, call)
      [] call.at = "setCreated"      -> resumeSetCreated(w, fault, call)
      [] call.at = "getGeneration"   -> resumeGetGeneration(w, fault, call)
      [] call.at = "getCurrent"      -> resumeGetCurrent(w, fault, call)
      [] call.at = "findOne"         -> resumeFindOne(w, fault, call)
      [] call.at = "setCurrent"      -> resumeSetCurrent(w, fault, call)
      [] call.at = "setIntermediate" -> resumeSetIntermediate(w, fault, call)
      [] call.at = "setGeneration"   -> resumeSetGeneration(w, fault, call)

\* The seeds of the boards concurrent callers create.
RaceInputs ==
    { <<<<1, 1, 1>>>>, <<<<0, 1, 0>>, <<0, 1, 0>>, <<0, 1, 0>>>> }

\* The generations concurrent callers ask for.
RaceGenerations ==
    {1, intermediateCacheInterval, intermediateCacheInterval + 1}

\* A backend call of a concurrent caller succeeds or throws.
RaceFaults ==
    { NoFault, [at |-> 1, value |-> CHOOSE v \in ThrownValues : v.isError] }

RaceInit ==
    /\ \/ backendsFail = FALSE /\ input \in RaceInputs
       \/ backendsFail = TRUE /\ input = <<<<1, 1, 1>>>>
    /\ board = fromDenseArray(input)
    /\ previous = <<>>
    /\ ruleCalls = {}
    /\ DetectorIdle
    /\ PairIdle
    /\ database = {}
    /\ cacheEntries = EmptyCache
    /\ redisClient = TRUE
    /\ uuids = <<MintedId>>
    /\ returnedIds = {}
    /\ lastCall = NoCall
    /\ SessionIdle
    /\ calls = <<>>
    /\ OutsideRaceIdle

\* A caller calls an operation, which runs to its first await.
Enter(operation, boardId, generations) ==
    /\ Len(calls) < MaxCalls
    /\ calls' = Append(calls, enter(World, operation, boardId, generations,
                                    input))
    /\ UNCHANGED <<input, engineVars, detectorVars, pairVars, sessionVars,
                   outsideRace,
                   database, cacheEntries, redisClient, backendsFail,
                   returnedIds, lastCall>>

CallCreateBoard ==
    /\ uuids # <<>>
    /\ Enter("createBoard", Head(uuids), 0)
    /\ uuids' = Tail(uuids)

CallGetBoardById ==
    /\ Enter("getBoardById", MintedId, 0)
    /\ UNCHANGED uuids

CallGetNextGeneration ==
    /\ Enter("getNextGeneration", MintedId, 1)
    /\ UNCHANGED uuids

CallGetStateAtGeneration ==
    /\ \E generations \in RaceGenerations :
          Enter("getStateAtGeneration", MintedId, generations)
    /\ UNCHANGED uuids

\* The backend call a suspended call awaits is made and the call runs on to
\* its next await or to its return.
Resume(at) ==
    /\ \E p \in 1..Len(calls), fault \in FaultsWhen(backendsFail) \cap RaceFaults :
          /\ calls[p].at = at
          /\ LET out == resume(World, fault, calls[p])
             IN  /\ database' = out.w.db
                 /\ cacheEntries' = out.w.cache
                 /\ calls' = [calls EXCEPT ![p] = out.call]
    /\ UNCHANGED <<input, engineVars, detectorVars, pairVars, sessionVars,
                   outsideRace,
                   redisClient, backendsFail, uuids, returnedIds, lastCall>>

ResumeCreate == Resume("create")
ResumeSetCreated == Resume("setCreated")
ResumeGetGeneration == Resume("getGeneration")
ResumeGetCurrent == Resume("getCurrent")
ResumeFindOne == Resume("findOne")
ResumeSetCurrent == Resume("setCurrent")
ResumeSetIntermediate == Resume("setIntermediate")
ResumeSetGeneration == Resume("setGeneration")

RaceNext ==
    \/ CallCreateBoard
    \/ CallGetBoardById
    \/ CallGetNextGeneration
    \/ CallGetStateAtGeneration
    \/ ResumeCreate
    \/ ResumeSetCreated
    \/ ResumeGetGeneration
    \/ ResumeGetCurrent
    \/ ResumeFindOne
    \/ ResumeSetCurrent
    \/ ResumeSetIntermediate
    \/ ResumeSetGeneration

RaceSpec == RaceInit /\ [][RaceNext]_vars

\* --------------------- the streaming session (handleFinalStateConnection)

\* The first position from `at` on that holds no decimal digit.
RECURSIVE digitsEnd(_, _)
digitsEnd(text, at) ==
    IF at > Len(text) THEN at
    ELSE IF \E d \in 1..10 : Digits[d] = text[at] THEN digitsEnd(text, at + 1)
         ELSE at

\* Number.parseInt(text, 10): <<>> for NaN, else <<n>>; an optional sign,
\* then the longest run of digits, whatever follows it.
parseInt(text) ==
    LET signed   == text # <<>> /\ text[1] \in {"-", "+"}
        unsigned == IF signed THEN Tail(text) ELSE text
        digits   == SubSeq(unsigned, 1, digitsEnd(unsigned, 1) - 1)
    IN  IF digits = <<>> THEN <<>>
        ELSE IF text[1] = "-" THEN << -DigitsToNat(digits) >>
        ELSE << DigitsToNat(digits) >>

\* parseConnectionParams(url): <<>> for null.  A query parameter is <<>>
\* when searchParams.get returns null, else <<its text>>.
parseConnectionParams(query) ==
    LET boardId          == query.boardId
        maxAttemptsParam == query.maxAttempts
        parsed           == parseInt(maxAttemptsParam[1])
    IN  IF \/ boardId = <<>> \/ boardId[1] = ""
           \/ maxAttemptsParam = <<>> \/ maxAttemptsParam[1] = <<>>
        THEN <<>>
        ELSE IF parsed = <<>> \/ parsed[1] <= 0 THEN <<>>
        ELSE << [boardId |-> boardId[1], maxAttempts |-> parsed[1]] >>

\* Writes whatever the socket's state.
sendMessageAlways(sent, state, message) == Append(sent, message)

\* sendMessage(ws, message): written only while the socket is open.
sendMessage(sent, state, message) ==
    IF state = "OPEN" THEN Append(sent, message) ELSE sent

\* ws.close(code, reason) on the server's socket.
wsClose(state) == IF state = "OPEN" THEN "CLOSING" ELSE state

errorFrame(error) == [type |-> "error", error |-> error]

progressFrame(event) ==
    [type |-> "progress", generation |-> event.generation,
     state |-> event.state]

\* The final message without its period.
finalMessageWithoutPeriod(data) ==
    [type |-> "final", generation |-> data.generation, state |-> data.state,
     status |-> data.status]

\* finalMessage, with period when result.data.period is defined.
finalMessage(data) ==
    IF "period" \in DOMAIN data
    THEN [type |-> "final", generation |-> data.generation,
          state |-> data.state, status |-> data.status,
          period |-> data.period]
    ELSE [type |-> "final", generation |-> data.generation,
          state |-> data.state, status |-> data.status]

\* onProgress for each of the events of one step of detectCycle.
RECURSIVE sendProgress(_, _, _)
sendProgress(sent, state, events) ==
    IF events = <<>> THEN sent
    ELSE sendProgress(sendMessage(sent, state, progressFrame(events[1])),
                      state, Tail(events))

\* The seeds of the boards sessions are opened for.
SessionInputs ==
    { <<<<1>>>>, BLOCK_PATTERN, BLINKER_PATTERN, GLIDER_PATTERN }

\* The texts of the maxAttempts parameter: small numbers, the largest number
\* the schema admits and the one after it, and texts that are no integers.
AttemptTexts ==
    { NumberToString(n) : n \in (-1)..MaxSessionAttempts }
    \cup { NumberToString(MaxAttemptsLimit),
           NumberToString(MaxAttemptsLimit + 1) }
    \cup { <<"a", "b", "c">>, <<"2", "x">> }

Urls ==
    [boardId     : { <<>>, <<MintedId>>, <<UnknownId>> },
     maxAttempts : { <<>> } \cup { <<t>> : t \in AttemptTexts }]

\* A connection has been accepted; the board of the seed is stored, or no
\* board is.
SessionInit ==
    /\ input \in SessionInputs
    /\ board = fromDenseArray(input)
    /\ previous = <<>>
    /\ ruleCalls = {}
    /\ DetectorIdle
    /\ PairIdle
    /\ database \in { {},
                      { [boardId    |-> MintedId,
                         state      |-> convertToSparse(input).state,
                         dimensions |-> convertToSparse(input).dimensions] } }
    /\ cacheEntries = EmptyCache
    /\ redisClient = FALSE
    /\ backendsFail \in BOOLEAN
    /\ uuids = <<>>
    /\ returnedIds = { d.boardId : d \in database }
    /\ lastCall = NoCall
    /\ url \in Urls
    /\ readyState = "OPEN"
    /\ frames = <<>>
    /\ closes = <<>>
    /\ sessionPc = "connected"
    /\ loadResult = NoResult
    /\ OuterIdle

\* handleFinalStateConnection up to its await: the parameters are parsed;
\* invalid ones end the session.
HandleConnection ==
    /\ sessionPc = "connected"
    /\ LET params == parseConnectionParams(url)
       IN  IF params = <<>>
           THEN /\ frames' = sendMessage(frames, readyState, errorFrame(
                      "Invalid connection parameters. Required: boardId and maxAttempts"))
                /\ closes' = Append(closes, [code   |-> 1008,
                                             reason |-> "Invalid parameters"])
                /\ readyState' = wsClose(readyState)
                /\ sessionPc' = "done"
                /\ UNCHANGED maxAttempts
           ELSE /\ maxAttempts' = params[1].maxAttempts
                /\ sessionPc' = "loading"
                /\ UNCHANGED <<frames, closes, readyState>>
    /\ UNCHANGED <<input, engineVars, pc, currentBoard, generation, i,
                   stateHistory, progress, result, computed, pairVars, outerVars,
                   repoVars, url, loadResult>>

\* The awaited getBoardById returns: a failure ends the session, a board
\* becomes the GameBoard detectCycle is called with.
BoardLoaded ==
    /\ sessionPc = "loading"
    /\ \E fault \in FaultsWhen(backendsFail) :
          LET out == getBoardById(World, fault,
                                  parseConnectionParams(url)[1].boardId)
          IN  /\ loadResult' = out.result
              /\ database' = out.w.db
              /\ cacheEntries' = out.w.cache
              /\ IF ~ out.result.success
                 THEN /\ frames' = sendMessage(frames, readyState,
                                               errorFrame("Board not found"))
                      /\ closes' = Append(closes, [code   |-> 1008,
                                                   reason |-> "Board not found"])
                      /\ readyState' = wsClose(readyState)
                      /\ sessionPc' = "done"
                      /\ UNCHANGED <<board, pc>>
                 ELSE /\ board' = fromSparseArray(out.result.data.state,
                                                  out.result.data.dimensions)
                      /\ pc' = "called"
                      /\ sessionPc' = "detecting"
                      /\ UNCHANGED <<frames, closes, readyState>>
    /\ UNCHANGED <<input, previous, ruleCalls, maxAttempts, currentBoard,
                   generation, i, stateHistory, progress, result, computed,
                   pairVars, outerVars, redisClient, backendsFail, uuids, returnedIds,
                   lastCall, url>>

\* The progress events of a step of detectCycle go through onProgress.
Stream ==
    /\ sessionPc = "detecting"
    /\ frames' = sendProgress(frames, readyState,
                              SubSeq(progress', Len(progress) + 1,
                                     Len(progress')))
    /\ UNCHANGED <<url, readyState, closes, sessionPc, loadResult>>

StreamBegin == DetectCycleBegin /\ Stream

StreamIteration == LoopIteration /\ Stream

StreamTimeout == ReturnTimeout /\ Stream

\* detectCycle has returned: the error or the final message, then the close.
Finish ==
    /\ sessionPc = "detecting"
    /\ pc = "returned"
    /\ IF ~ result.success
       THEN /\ frames' = sendMessage(frames, readyState,
                                     errorFrame(result.error))
            /\ closes' = Append(closes, [code   |-> 1011,
                                         reason |-> "Cycle detection failed"])
       ELSE /\ frames' = sendMessage(frames, readyState,
                                     finalMessage(result.data))
            /\ closes' = Append(closes, [code   |-> 1000,
                                         reason |-> "Calculation complete"])
    /\ readyState' = wsClose(readyState)
    /\ sessionPc' = "done"
    /\ UNCHANGED <<input, engineVars, detectorVars, pairVars, outerVars, repoVars, url,
                   loadResult>>

\* The client closes the channel.  The handler is entered with an open
\* socket and yields only at its await, so that is where the socket's state
\* can change under it.
ClientCloses ==
    /\ sessionPc = "loading"
    /\ readyState = "OPEN"
    /\ readyState' = "CLOSED"
    /\ UNCHANGED <<input, engineVars, detectorVars, pairVars, outerVars, repoVars, url,
                   frames, closes, sessionPc, loadResult>>

SessionNext ==
    \/ HandleConnection
    \/ BoardLoaded
    \/ StreamBegin
    \/ StreamIteration
    \/ StreamTimeout
    \/ Finish
    \/ ClientCloses

SessionSpec == SessionInit /\ [][SessionNext]_vars

\* ------------------ the session with exceptions (initializeWebSocketServer)

\* Closes with the policy-violation code.
internalErrorCloseAsPolicyViolation ==
    [code |-> 1008, reason |-> "Internal server error"]

\* ws.close(1011, 'Internal server error') of the connection's catch.
internalErrorClose == [code |-> 1011, reason |-> "Internal server error"]

\* The awaited getBoardById throws instead of returning a Result (the
\* test's mockImplementation): the handler's promise rejects.
BoardLoadRejects ==
    /\ sessionPc = "loading"
    /\ sessionPc' = "rejected"
    /\ UNCHANGED <<input, engineVars, detectorVars, pairVars, outerVars, repoVars, url,
                   readyState, frames, closes, loadResult>>

\* ws.send throws inside sendMessage, which is called only on an open
\* socket: for the error frame of either early return, for a progress frame
\* inside detectCycle's callback, or for the error or final frame after it.
\* The exception leaves the handler; what the handler did before stays done.
SendThrows ==
    /\ readyState = "OPEN"
    /\ sessionPc' = "rejected"
    /\ \/ /\ sessionPc = "connected"
          /\ parseConnectionParams(url) = <<>>
          /\ UNCHANGED <<frames, progress, loadResult, database, cacheEntries>>
       \/ /\ sessionPc = "loading"
          /\ \E fault \in FaultsWhen(backendsFail) :
                LET out == getBoardById(World, fault,
                                        parseConnectionParams(url)[1].boardId)
                IN  /\ ~ out.result.success
                    /\ loadResult' = out.result
                    /\ database' = out.w.db
                    /\ cacheEntries' = out.w.cache
          /\ UNCHANGED <<frames, progress>>
       \/ /\ sessionPc = "detecting"
          /\ pc = "called"
          /\ \/ UNCHANGED <<frames, progress>>
             \/ /\ ~ isStable(toStateHash(board),
                              toStateHash(calculateNextGeneration(board)))
                /\ progress' = Emit(progress, 0, toDenseArray(board))
                /\ frames' = sendProgress(frames, readyState, progress')
          /\ UNCHANGED <<loadResult, database, cacheEntries>>
       \/ /\ sessionPc = "detecting"
          /\ \/ pc = "loop" /\ loopContinues(i, maxAttempts)
             \/ pc = "returned"
          /\ UNCHANGED <<frames, progress, loadResult, database, cacheEntries>>
    /\ UNCHANGED <<input, engineVars, maxAttempts, pc, currentBoard,
                   generation, i, stateHistory, result, computed, pairVars, outerVars,
                   redisClient, backendsFail, uuids, returnedIds, lastCall,
                   url, readyState, closes>>

\* handleFinalStateConnection(ws, url).catch(...): the rejection is logged
\* and the socket closed.
HandlerCatch ==
    /\ sessionPc = "rejected"
    /\ closes' = Append(closes, internalErrorClose)
    /\ readyState' = wsClose(readyState)
    /\ sessionPc' = "done"
    /\ UNCHANGED <<input, engineVars, detectorVars, pairVars, outerVars, repoVars, url,
                   frames, loadResult>>

SessionFaultNext ==
    \/ HandleConnection
    \/ BoardLoaded
    \/ StreamBegin
    \/ StreamIteration
    \/ StreamTimeout
    \/ Finish
    \/ ClientCloses
    \/ BoardLoadRejects
    \/ SendThrows
    \/ HandlerCatch

\* The steps of the handler and of its catch.  They run on the event loop
\* and wait for nothing but the awaited getBoardById, whose backend calls
\* settle.
HandlerStep ==
    \/ HandleConnection
    \/ BoardLoaded
    \/ StreamBegin
    \/ StreamIteration
    \/ StreamTimeout
    \/ Finish
    \/ HandlerCatch

\* ENABLED <<HandlerStep>>_vars: the handler has a step to take until the
\* session is done.
HandlerEnabled == sessionPc # "done"

\* Weak fairness of HandlerStep, WF_vars(HandlerStep), with its ENABLED
\* written as the state predicate it equals.
HandlerFairness ==
    \/ []<>(~ HandlerEnabled)
    \/ []<><<HandlerStep>>_vars

SessionFaultSpec ==
    SessionInit /\ [][SessionFaultNext]_vars /\ HandlerFairness

\* ---------------- the route GET /boards/:boardId/state/:generation (R3)

\* A path segment that is no UUID.
NotAUuid == "not-a-uuid"

\* boardIdSchema, z.string().uuid(...): whether it admits the text, for the
\* ids requested.
boardIdSchema(text) == text \in BoardIds

\* Number(text) of z.coerce.number(): <<>> for NaN, else <<n>>; texts of an
\* optional minus sign and decimal digits are the numbers requested.
coerceNumber(text) ==
    LET unsigned == IF text # <<>> /\ text[1] = "-" THEN Tail(text) ELSE text
    IN  IF unsigned # <<>> /\ digitsEnd(unsigned, 1) > Len(unsigned)
        THEN << StringToNumber(text) >>
        ELSE <<>>

\* generationSchema: <<>> when it throws a ZodError, else <<the number>>.
generationSchema(text) ==
    LET coerced == coerceNumber(text)
    IN  IF coerced = <<>> \/ ~ (coerced[1] > 0) THEN <<>> ELSE coerced

\* generationParamSchema.parse(req.params): <<>> when it throws a ZodError,
\* else <<the validated params>>, the generation a number.
generationParamSchema(params) ==
    LET parsed == generationSchema(params.generation)
    IN  IF boardIdSchema(params.boardId) /\ parsed # <<>>
        THEN << [boardId |-> params.boardId, generation |-> parsed[1]] >>
        ELSE <<>>

successResponse(data) == [success |-> TRUE, data |-> data]

errorResponse(error) == [success |-> FALSE, error |-> error]

\* What validate() hands to next(error).
ZodError == [isZod |-> TRUE, isError |-> TRUE, message |-> "ZodError"]

\* errorHandler(error, req, res, next)
errorHandler(error) ==
    IF error.isZod
    THEN [status |-> 400, body |-> errorResponse("Validation error")]
    ELSE IF error.isError
    THEN [status |-> 500, body |-> errorResponse(error.message)]
    ELSE [status |-> 500, body |-> errorResponse("Internal server error")]

\* The handler of the route from `if (!result.success)` on: out is what
\* getStateAtGeneration returned and did.
respond(out, generations) ==
    [w        |-> out.w,
     result   |-> out.result,
     response |->
        IF ~ out.result.success
        THEN [status |-> IF out.result.error = "Board not found"
                         THEN 404 ELSE 400,
              body   |-> errorResponse(out.result.error)]
        ELSE [status |-> 200,
              body   |-> successResponse(
                             [state      |-> out.result.data,
                              generation |-> generations])]]

\* The handler of the route after validate(): both params are truthy, and
\* getStateAtGeneration catches whatever is thrown, so the handler's own
\* catch is never entered.
getStateAtGenerationHandler(w, fault, params) ==
    respond(getStateAtGeneration(w, fault, params.boardId, params.generation),
            params.generation)

\* validate(generationParamSchema, 'params'), then the handler or the error
\* handler.
getStateAtGenerationRoute(w, fault, params) ==
    LET validated == generationParamSchema(params)
    IN  IF validated = <<>>
        THEN [w |-> w, result |-> NoResult, response |-> errorHandler(ZodError)]
        ELSE getStateAtGenerationHandler(w, fault, validated[1])

\* The seeds of the boards requested.
RouteInputs == { <<<<1>>>>, <<<<1, 1, 1>>>> }

\* The path segments of the requests: the ids, and generations around the
\* guard, at the first intermediate cache write, and texts that are no
\* numbers.
RouteParams ==
    [boardId    : BoardIds \cup {NotAUuid},
     generation : { NumberToString(n) : n \in (-1)..MaxRouteGenerations }
                  \cup { NumberToString(intermediateCacheInterval),
                         <<"a", "b", "c">>, <<"2", "x">> }]

\* The requests made: while backend calls may throw, those for the minted id
\* and a generation the schema admits.
RouteParamsWhen(failing) ==
    IF failing
    THEN { p \in RouteParams : /\ p.boardId = MintedId
                               /\ generationSchema(p.generation) # <<>> }
    ELSE RouteParams

RouteInit ==
    /\ backendsFail \in BOOLEAN
    /\ input \in RouteInputs
    /\ redisClient \in BOOLEAN
    /\ board = fromDenseArray(input)
    /\ previous = <<>>
    /\ ruleCalls = {}
    /\ DetectorIdle
    /\ PairIdle
    /\ database = {}
    /\ cacheEntries = EmptyCache
    /\ uuids = <<MintedId>>
    /\ returnedIds = {}
    /\ lastCall = NoCall
    /\ SessionIdle
    /\ OutsideHttpIdle
    /\ response = NoResult

\* GET /boards/:boardId/state/:generation is answered.  The response is
\* recorded with the request, with whether a board of the id was stored when
\* the request came, and with what the repository returned and called.
GetStateRoute ==
    /\ \E params \in RouteParamsWhen(backendsFail),
          fault \in FaultsWhen(backendsFail) :
          \E out \in {getStateAtGenerationRoute(World, fault, params)} :
              /\ database' = out.w.db
              /\ cacheEntries' = out.w.cache
              /\ response' = [params |-> params,
                              stored |-> \E d \in database :
                                            d.boardId = params.boardId,
                              result |-> out.result,
                              trace  |-> out.w.trace,
                              status |-> out.response.status,
                              body   |-> out.response.body]
    /\ UNCHANGED <<input, engineVars, detectorVars, pairVars, sessionVars,
                   outsideHttp, redisClient, backendsFail, uuids,
                   returnedIds, lastCall>>

RouteNext ==
    \/ CreateBoard
    \/ GetStateRoute
    \/ Expire

RouteSpec == RouteInit /\ [][RouteNext]_vars

\* ------------------------ the WebSocket server singleton (websocket/server.ts)

\* initializeWebSocketServer(httpServer), on let wss and the number of
\* servers constructed: the instance returned is the number of its
\* construction.
initializeWebSocketServer(instance, constructed) ==
    IF instance # 0
    THEN [wss |-> instance, servers |-> constructed, returned |-> instance]
    ELSE [wss |-> constructed + 1, servers |-> constructed + 1,
          returned |-> constructed + 1]

\* getWebSocketServer()
getWebSocketServer(instance) ==
    IF instance = 0
    THEN [threw |-> TRUE, message |-> "WebSocket server not initialized",
          returned |-> 0]
    ELSE [threw |-> FALSE, message |-> "", returned |-> instance]

\* shutdownWebSocketServer() up to its return: the promise it returns, and
\* the instance close was called on, 0 for none.
shutdownWebSocketServer(instance) ==
    IF instance = 0
    THEN [promise |-> "resolved", closing |-> 0]
    ELSE [promise |-> "pending", closing |-> instance]

\* The callback of close with wss = null in both branches.
closeCallbackAlwaysClears(instance, err) ==
    IF err THEN [wss |-> 0, promise |-> "rejected"]
    ELSE [wss |-> 0, promise |-> "resolved"]

\* The callback shutdownWebSocketServer passes to wss.close.
closeCallback(instance, err) ==
    IF err THEN [wss |-> instance, promise |-> "rejected"]
    ELSE [wss |-> 0, promise |-> "resolved"]

\* An entry of the log: the operation, the instance returned or closed, what
\* was thrown, the promise concerned and its state, and the servers
\* constructed so far.
WsEvent(op, instance, message, promise, settled, constructed) ==
    [op |-> op, instance |-> instance, message |-> message,
     promise |-> promise, settled |-> settled, servers |-> constructed]

WsInit ==
    /\ input = <<>>
    /\ board = fromDenseArray(input)
    /\ previous = <<>>
    /\ ruleCalls = {}
    /\ DetectorIdle
    /\ PairIdle
    /\ RepoIdle
    /\ SessionIdle
    /\ OutsideWsIdle
    /\ wss = 0
    /\ servers = 0
    /\ promises = <<>>
    /\ wsLog = <<>>

WsUnchanged ==
    UNCHANGED <<input, engineVars, detectorVars, pairVars, repoVars,
                sessionVars, outsideWs>>

\* initializeWebSocketServer(httpServer) is called.
InitializeWebSocketServer ==
    /\ Len(wsLog) < MaxWsEvents
    /\ LET out == initializeWebSocketServer(wss, servers)
       IN  /\ wss' = out.wss
           /\ servers' = out.servers
           /\ wsLog' = Append(wsLog, WsEvent("initialize", out.returned, "",
                                             0, "", out.servers))
    /\ UNCHANGED promises
    /\ WsUnchanged

\* getWebSocketServer() is called.
GetWebSocketServer ==
    /\ Len(wsLog) < MaxWsEvents
    /\ LET out == getWebSocketServer(wss)
       IN  wsLog' = Append(wsLog, WsEvent("get", out.returned, out.message,
                                          0, "", servers))
    /\ UNCHANGED <<wss, servers, promises>>
    /\ WsUnchanged

\* shutdownWebSocketServer() is called and returns its promise.
ShutdownWebSocketServer ==
    /\ Len(wsLog) < MaxWsEvents
    /\ LET out == shutdownWebSocketServer(wss)
       IN  /\ promises' = Append(promises, [state   |-> out.promise,
                                            closing |-> out.closing])
           /\ wsLog' = Append(wsLog, WsEvent("shutdown", out.closing, "",
                                             Len(promises) + 1, out.promise,
                                             servers))
    /\ UNCHANGED <<wss, servers>>
    /\ WsUnchanged

\* The server calls the callback of a close, with an error or without.
CloseCallback ==
    /\ Len(wsLog) < MaxWsEvents
    /\ \E p \in 1..Len(promises), err \in BOOLEAN :
          /\ promises[p].state = "pending"
          /\ LET out == closeCallback(wss, err)
             IN  /\ wss' = out.wss
                 /\ promises' = [promises EXCEPT ![p].state = out.promise]
                 /\ wsLog' = Append(wsLog, WsEvent("closed",
                                                   promises[p].closing, "",
                                                   p, out.promise, servers))
    /\ UNCHANGED servers
    /\ WsUnchanged

WsNext ==
    \/ InitializeWebSocketServer
    \/ GetWebSocketServer
    \/ ShutdownWebSocketServer
    \/ CloseCallback

WsSpec == WsInit /\ [][WsNext]_vars

\* ------------------- the browser client (GameOfLifeWebSocket) and its sockets

\* A call of one of the callbacks the client was constructed with.
Callback(name, argument) == [callback |-> name, argument |-> argument]

\* The codes of the close events: a normal closure, a lost connection, and
\* the codes the server closes with for invalid parameters and for errors.
CloseCodes == {1000, 1006, 1008, 1011}

\* The codes a socket in a state may be closed with: a socket that never
\* opened or that the client has closed ends with 1006 or, closed cleanly,
\* with 1000.
CloseCodesOf(state) ==
    CASE state = "CONNECTING" -> {1006}
      [] state = "OPEN"       -> CloseCodes
      [] state = "CLOSING"    -> {1000, 1006}
      [] OTHER                -> {}

\* The data of the message events: a message of the protocol, and text
\* JSON.parse throws on.
MessageData == {"{\"type\":\"progress\"}", "not json"}

\* connect(): this.ws = new WebSocket(this.url), with its four handlers; the
\* url is one the constructor accepts.
connect(all) ==
    [sockets |-> Append(all, [state |-> "CONNECTING", code |-> 0]),
     ws      |-> Len(all) + 1]

\* ws.onopen
onopen ==
    [reconnectAttempts |-> 0, delivered |-> <<Callback("onOpen", "")>>]

\* ws.onmessage
onmessage(data) ==
    IF data = "not json"
    THEN <<Callback("onError", "Failed to parse server message")>>
    ELSE <<Callback("onMessage", data)>>

\* ws.onerror
onerror == <<Callback("onError", "WebSocket connection error")>>

\* ws.onclose: the callbacks called, and whether setTimeout is called.
onclose(attempts, code) ==
    IF code = 1000
    THEN [delivered |-> <<Callback("onClose", "")>>, timer |-> FALSE]
    ELSE IF attempts < maxReconnectAttempts
    THEN [delivered |-> <<>>, timer |-> TRUE]
    ELSE [delivered |->
              <<Callback("onError",
                         "Connection lost. Max reconnection attempts reached."),
                Callback("onClose", "")>>,
          timer |-> FALSE]

\* WebSocket.close(code, reason) on a socket in a state.
socketClose(state) ==
    IF state \in {"CONNECTING", "OPEN"} THEN "CLOSING" ELSE state

\* disconnect()
disconnect(all, ws) ==
    IF ws # 0
    THEN [sockets |-> [all EXCEPT ![ws].state = socketClose(@)], ws |-> 0]
    ELSE [sockets |-> all, ws |-> ws]

ClientInit ==
    /\ input = <<>>
    /\ board = fromDenseArray(input)
    /\ previous = <<>>
    /\ ruleCalls = {}
    /\ DetectorIdle
    /\ PairIdle
    /\ RepoIdle
    /\ SessionIdle
    /\ OutsideClientIdle
    /\ ClientIdle

ClientUnchanged ==
    UNCHANGED <<input, engineVars, detectorVars, pairVars, repoVars,
                sessionVars, outsideClient>>

\* The owner of the client calls connect(), once, after constructing it.
Connect ==
    /\ sockets = <<>>
    /\ disconnected = <<>>
    /\ LET out == connect(sockets)
       IN  sockets' = out.sockets /\ clientWs' = out.ws
    /\ lastDelivered' = <<>>
    /\ UNCHANGED <<reconnectAttempts, timers, reconnections, disconnected>>
    /\ ClientUnchanged

\* The connection of a socket is established.
SocketOpens ==
    /\ \E s \in 1..Len(sockets) :
          /\ sockets[s].state = "CONNECTING"
          /\ sockets' = [sockets EXCEPT ![s].state = "OPEN"]
    /\ LET out == onopen
       IN  /\ reconnectAttempts' = out.reconnectAttempts
           /\ lastDelivered' = out.delivered
    /\ UNCHANGED <<clientWs, timers, reconnections, disconnected>>
    /\ ClientUnchanged

\* A message arrives on an open socket.
SocketMessage ==
    /\ \E s \in 1..Len(sockets), data \in MessageData :
          /\ sockets[s].state = "OPEN"
          /\ lastDelivered' = onmessage(data)
    /\ UNCHANGED <<sockets, clientWs, reconnectAttempts, timers,
                   reconnections, disconnected>>
    /\ ClientUnchanged

\* A socket reports an error.
SocketError ==
    /\ \E s \in 1..Len(sockets) : sockets[s].state # "CLOSED"
    /\ lastDelivered' = onerror
    /\ UNCHANGED <<sockets, clientWs, reconnectAttempts, timers,
                   reconnections, disconnected>>
    /\ ClientUnchanged

\* A socket is closed, by the server, by the loss of the connection, or
\* after the client's close().
SocketCloses ==
    /\ \E s \in 1..Len(sockets) :
          \E code \in CloseCodesOf(sockets[s].state) :
             LET out == onclose(reconnectAttempts, code)
             IN  /\ sockets' = [sockets EXCEPT ![s] = [state |-> "CLOSED",
                                                       code  |-> code]]
                 /\ timers' = IF out.timer THEN timers + 1 ELSE timers
                 /\ lastDelivered' = out.delivered
    /\ UNCHANGED <<clientWs, reconnectAttempts, reconnections, disconnected>>
    /\ ClientUnchanged

\* A callback of setTimeout runs: this.reconnectAttempts++; this.connect().
TimerFires ==
    /\ timers > 0
    /\ Len(sockets) < MaxSockets
    /\ timers' = timers - 1
    /\ reconnectAttempts' = reconnectAttempts + 1
    /\ reconnections' = reconnections + 1
    /\ LET out == connect(sockets)
       IN  sockets' = out.sockets /\ clientWs' = out.ws
    /\ lastDelivered' = <<>>
    /\ UNCHANGED disconnected
    /\ ClientUnchanged

\* The owner of the client calls disconnect().
Disconnect ==
    /\ sockets # <<>>
    /\ LET out == disconnect(sockets, clientWs)
       IN  sockets' = out.sockets /\ clientWs' = out.ws
    /\ disconnected' = IF disconnected = <<>> THEN <<Len(sockets)>>
                       ELSE disconnected
    /\ lastDelivered' = <<>>
    /\ UNCHANGED <<reconnectAttempts, timers, reconnections>>
    /\ ClientUnchanged

ClientNext ==
    \/ Connect
    \/ SocketOpens
    \/ SocketMessage
    \/ SocketError
    \/ SocketCloses
    \/ TimerFires
    \/ Disconnect

ClientSpec == ClientInit /\ [][ClientNext]_vars

\* ------------------------------------------------------- engine properties

\* The live cells of a board as pairs <<row, col>>.
LivePairs(b) == { parseCoordinates(coords) : coords \in b.state }

AllInBounds(b) ==
    \A coords \in b.state : isWithinBounds(fromCoordinates(coords), b.dimensions)

\* The full-grid Conway step on the bounded, non-wrapping rectangle, written
\* on pairs of integers and without the engine's operators.
ReferenceCount(live, r, c) ==
    Cardinality({ p \in live :
                    /\ p # <<r, c>>
                    /\ p[1] - r \in {-1, 0, 1}
                    /\ p[2] - c \in {-1, 0, 1} })

ReferenceStep(live, rows, cols) ==
    { rc \in (0..(rows - 1)) \X (0..(cols - 1)) :
        LET n == ReferenceCount(live, rc[1], rc[2])
        IN  \/ rc \in live /\ n \in {2, 3}
            \/ rc \notin live /\ n = 3 }

\* C1: for a board whose live cells all lie inside its dimensions,
\* calculateNextGeneration() returns exactly the board of the full-grid
\* Conway step on the bounded rectangle, with the same dimensions.
C1_NextGenerationIsConwayStep ==
    previous # <<>> =>
        LET b == previous[1]
        IN  AllInBounds(b) =>
              /\ board.dimensions = b.dimensions
              /\ board.state =
                   { createCoordinates(rc[1], rc[2]) :
                       rc \in ReferenceStep(LivePairs(b), b.dimensions.rows,
                                            b.dimensions.cols) }

\* A step in which a cell was born, a cell died, a cell survived, and some
\* cell of the rectangle lay outside the evaluation set.
C1_Witness ==
    /\ previous # <<>>
    /\ AllInBounds(previous[1])
    /\ board.state \ previous[1].state # {}
    /\ previous[1].state \ board.state # {}
    /\ previous[1].state \cap board.state # {}
    /\ \E rc \in (0..(board.dimensions.rows - 1)) \X (0..(board.dimensions.cols - 1)) :
          createCoordinates(rc[1], rc[2]) \notin getCellsToEvaluate(previous[1])

\* C2: shouldBeAlive(isAlive, n) answers, for every n in 0..8, true exactly
\* when (isAlive and n is 2 or 3) or (not isAlive and n is 3); every call
\* the engine makes has n in 0..8 and got that answer.
C2_RulesTable ==
    /\ \A isAlive \in BOOLEAN, n \in 0..8 :
          /\ shouldBeAlive(isAlive, n) \in BOOLEAN
          /\ shouldBeAlive(isAlive, n) <=>
               \/ isAlive /\ n \in {2, 3}
               \/ ~isAlive /\ n = 3
    /\ \A call \in ruleCalls :
          /\ call.neighborCount \in 0..8
          /\ call.result <=>
               \/ call.isCurrentlyAlive /\ call.neighborCount \in {2, 3}
               \/ ~call.isCurrentlyAlive /\ call.neighborCount = 3

\* One step that asked the rules about a survivor, a birth, a lonely and a
\* crowded live cell, and a dead cell that stays dead with two neighbours.
C2_Witness ==
    /\ \E call \in ruleCalls :
          call.isCurrentlyAlive /\ call.neighborCount \in {2, 3} /\ call.result
    /\ \E call \in ruleCalls :
          ~call.isCurrentlyAlive /\ call.neighborCount = 3 /\ call.result
    /\ \E call \in ruleCalls :
          call.isCurrentlyAlive /\ call.neighborCount < 2 /\ ~call.result
    /\ \E call \in ruleCalls :
          call.isCurrentlyAlive /\ call.neighborCount > 3 /\ ~call.result
    /\ \E call \in ruleCalls :
          ~call.isCurrentlyAlive /\ call.neighborCount = 2 /\ ~call.result

\* C3: every board reached from fromDenseArray(M) keeps the dimensions of M
\* and has all its live coordinates inside them.
C3_StaysInsideRectangle ==
    /\ board.dimensions =
         Dimensions(Len(input), IF Len(input) > 0 THEN Len(input[1]) ELSE 0)
    /\ \A coords \in board.state :
          LET rc == parseCoordinates(coords)
          IN  /\ 0 <= rc[1] /\ rc[1] < board.dimensions.rows
              /\ 0 <= rc[2] /\ rc[2] < board.dimensions.cols

\* A step from a board with a cell just outside the rectangle that has
\* exactly three live neighbours: unbounded Life would give birth there.
C3_Witness ==
    /\ previous # <<>>
    /\ \E coords \in previous[1].state :
          \E n \in getNeighborPositions(fromCoordinates(coords)) :
              /\ ~isWithinBounds(n, previous[1].dimensions)
              /\ countLiveNeighbors(previous[1], n) = 3

\* ----------------------------------------------------- detector properties

\* The boards of generations 0..n of b: element g + 1 is generation g.
RECURSIVE Trajectory(_, _)
Trajectory(b, n) ==
    IF n <= 0 THEN <<b>>
    ELSE LET t == Trajectory(b, n - 1)
         IN  Append(t, calculateNextGeneration(t[Len(t)]))

Returned(status) ==
    /\ pc = "returned"
    /\ result.success
    /\ result.data.status = status

\* C4: a 'stable' result with generation G and state S has S the dense form
\* of generation G of the seed, the next generation of S is S again, and no
\* generation before G is a fixed point.
C4_StableIsFirstFixedPoint ==
    Returned("stable") =>
        LET G == result.data.generation
            S == result.data.state
            t == Trajectory(board, G + 1)
        IN  /\ G >= 0
            /\ S = toDenseArray(t[G + 1])
            /\ toDenseArray(calculateNextGeneration(fromDenseArray(S))) = S
            /\ \A g \in 0..(G - 1) : t[g + 1].state # t[g + 2].state

\* A stable result found inside the loop, beyond generation 1.
C4_Witness ==
    /\ Returned("stable")
    /\ result.data.generation >= 2
    /\ result.data.state # toDenseArray(board)

\* C5: an 'oscillating' result with generation g, period p and state S has
\* 2 <= p <= g, S the dense form of generation g of the seed, and generation
\* g - p has the live cells of generation g.
C5_PeriodIsDistanceToMatch ==
    Returned("oscillating") =>
        LET g == result.data.generation
            p == result.data.period
            t == Trajectory(board, g)
        IN  /\ p >= 2
            /\ p <= g
            /\ result.data.state = toDenseArray(t[g + 1])
            /\ t[g - p + 1].state = t[g + 1].state

\* An oscillation found after a transient and after the history buffer has
\* dropped entries: the match is no longer at the index of its generation.
C5_Witness ==
    /\ Returned("oscillating")
    /\ result.data.generation > maxHistorySize + 1
    /\ Len(stateHistory) = maxHistorySize
    /\ result.data.period < result.data.generation
    /\ stateHistory[1] # toStateHash(board)

\* The first generation in 1..limit equal to b, or 0 when there is none;
\* `seen` is generation `gen` of b.
RECURSIVE FirstReturnFrom(_, _, _, _)
FirstReturnFrom(b, seen, gen, limit) ==
    IF gen >= limit THEN 0
    ELSE LET next == calculateNextGeneration(seen)
         IN  IF next.state = b.state THEN gen + 1
             ELSE IF next.state = seen.state THEN 0
             ELSE FirstReturnFrom(b, next, gen + 1, limit)

FirstReturn(b, limit) == FirstReturnFrom(b, b, 0, limit)

\* C6: for a seed that is a pure oscillator of minimal period k, 2 <= k <= 20,
\* and maxAttempts >= k, detectCycle returns 'oscillating' with period k.
C6_PureOscillatorPeriod ==
    pc = "returned" =>
        LET k == FirstReturn(board, 20)
        IN  (2 <= k /\ k <= 20 /\ maxAttempts >= k) =>
              /\ result.success
              /\ result.data.status = "oscillating"
              /\ result.data.period = k

\* A pure oscillator of period 20, the longest the claim covers.
C6_Witness ==
    /\ pc = "returned"
    /\ maxAttempts >= 20
    /\ FirstReturn(board, 20) = 20

\* C7: a 'timeout' result has generation maxAttempts and the dense form of
\* generation maxAttempts of the seed.
C7_TimeoutAtMaxAttempts ==
    Returned("timeout") =>
        /\ result.data.generation = maxAttempts
        /\ result.data.state =
             toDenseArray(Trajectory(board, maxAttempts)[maxAttempts + 1])

\* maxAttempts = 1: the loop body never ran.
C7_Witness ==
    /\ Returned("timeout")
    /\ maxAttempts = 1
    /\ computed = 1
    /\ result.data.state # toDenseArray(board)

\* C8: with maxAttempts >= 1 the progress events carry generations 0, 1, 2,
\* ... in order without gap or repeat, at most maxAttempts + 1 of them, and
\* the event of generation n carries the dense form of generation n.
C8_ProgressInOrder ==
    maxAttempts >= 1 =>
        /\ Len(progress) <= maxAttempts + 1
        /\ LET t == Trajectory(board, Len(progress) - 1)
           IN  \A n \in 1..Len(progress) :
                  /\ progress[n].generation = n - 1
                  /\ progress[n].state = toDenseArray(t[n])

\* A run that timed out after emitting all of generations 0..maxAttempts.
C8_Witness ==
    /\ Returned("timeout")
    /\ maxAttempts >= 3
    /\ Len(progress) = maxAttempts + 1

\* C9: the last progress event of a run carries the generation of the
\* returned result.
C9_LastProgressIsResultGeneration ==
    (pc = "returned" /\ result.success) =>
        /\ progress # <<>>
        /\ progress[Len(progress)].generation = result.data.generation

\* C10: with maxAttempts <= 0 detectCycle returns the failure 'maxAttempts
\* must be positive', emits no progress and computes no generation.
C10_RejectsNonPositiveMaxAttempts ==
    maxAttempts <= 0 =>
        /\ progress = <<>>
        /\ computed = 0
        /\ pc \in {"called", "returned"}
        /\ pc = "returned" =>
             result = Failure("maxAttempts must be positive (>= 1)")

\* The call with maxAttempts = 0 has returned.
C10_Witness ==
    /\ pc = "returned"
    /\ maxAttempts = 0
    /\ ~result.success

\* ------------------------------------------------- conversion properties

\* C11: the dense and the sparse form round-trip.  The matrix the board was
\* built from, when it has at least one row and one column, is what
\* fromDenseArray(M).toDenseArray() gives back; and a board whose live cells
\* lie inside its dimensions, be it a freshly built board or one computed by
\* calculateNextGeneration(), is rebuilt by fromDenseArray(B.toDenseArray())
\* with the same dimensions and the same live-cell set.
C11_DenseSparseRoundTrip ==
    /\ (Len(input) >= 1 /\ Len(input[1]) >= 1)
          => toDenseArray(fromDenseArray(input)) = input
    /\ AllInBounds(board)
          => LET back == fromDenseArray(toDenseArray(board))
             IN  /\ back.dimensions = board.dimensions
                 /\ back.state = board.state

\* A computed board on a rectangle that is not square, with live cells off
\* the diagonal, built from a matrix with live cells.
C11_Witness ==
    /\ previous # <<>>
    /\ Len(input) >= 1 /\ Len(input[1]) >= 1
    /\ board.dimensions.rows # board.dimensions.cols
    /\ AllInBounds(board)
    /\ \E p \in LivePairs(board) : p[1] # p[2]
    /\ \E p \in LivePairs(fromDenseArray(input)) : p[1] # p[2]

\* ------------------------------------------------- comparison properties

BothBuilt == built = {"this", "other"}

\* C12: toStateHash() is a canonical encoding of the live-cell set.  The
\* hash of a board does not depend on the order its coordinates were
\* inserted in (it is the hash of the set); two boards have equal hashes
\* exactly when their live-cell sets are equal; and the hashes are equal
\* exactly when equals() returns true.
C12_HashIsCanonical ==
    BothBuilt =>
        LET thisHash  == toStateHashInOrder(thisOrder)
            otherHash == toStateHashInOrder(otherOrder)
        IN  /\ thisHash = toStateHash(thisBoard)
            /\ otherHash = toStateHash(otherBoard)
            /\ (thisHash = otherHash) <=> (thisBoard.state = otherBoard.state)
            /\ (thisHash = otherHash) <=> equals(thisBoard, otherBoard)

\* Two boards with the same two coordinates inserted in opposite orders.
C12_Witness ==
    /\ BothBuilt
    /\ Len(thisOrder) >= 2
    /\ thisOrder # otherOrder
    /\ thisBoard.state = otherBoard.state

\* C13: equals() returns true if and only if the two boards have equal
\* dimensions (rows and cols) and equal live-cell sets.
C13_EqualsComparesDimensionsAndCells ==
    BothBuilt =>
        (equals(thisBoard, otherBoard)
           <=> /\ thisBoard.dimensions = otherBoard.dimensions
               /\ thisBoard.state = otherBoard.state)

\* ------------------------------------------------- repository properties

\* A board with this id is in the boards collection.
Exists(boardId) == \E d \in database : d.boardId = boardId

\* Some backend call of the operation threw.
Threw(call) == \E k \in 1..Len(call.trace) : call.trace[k].threw

\* A cache call of the operation threw.
CacheThrew(call) ==
    \E k \in 1..Len(call.trace) :
        call.trace[k].threw /\ call.trace[k].call \in {"get", "setEx"}

\* The backend calls of the operation that wrote something.
Writes(call) ==
    { k \in 1..Len(call.trace) :
        call.trace[k].call \in {"create", "setEx"} /\ ~ call.trace[k].threw }

\* Rebuilding a board from a returned record and densifying it.
Densified(record) ==
    toDenseArray(fromSparseArray(record.state, record.dimensions))

\* C14: after createBoard(M) succeeded with id, getBoardById(id) succeeds in
\* every later state of the cache (the entry createBoard wrote, the entry
\* expired, no cache client), and the board rebuilt from the returned state
\* and dimensions, densified, is exactly M.  This is stated of the call made
\* in each reachable state, and of each call that was made and in which no
\* backend threw.
C14_CreateThenGetRoundTrip ==
    /\ \A id \in returnedIds :
          LET out == getBoardById(World, NoFault, id)
          IN  /\ out.result.success
              /\ Densified(out.result.data) = input
    /\ ( /\ lastCall.operation = "getBoardById"
         /\ lastCall.boardId \in returnedIds
         /\ ~ Threw(lastCall) )
          => /\ lastCall.result.success
             /\ Densified(lastCall.result.data) = input

\* A board with live cells off the diagonal was created with a cache client,
\* its cache entry has gone, and getBoardById served it from the durable
\* backend.
C14_Witness ==
    /\ lastCall.operation = "getBoardById"
    /\ lastCall.boardId \in returnedIds
    /\ lastCall.result.success
    /\ redisClient
    /\ \E k \in 1..Len(lastCall.trace) : lastCall.trace[k].call = "findOne"
    /\ \E p \in LivePairs(board) : p[1] # p[2]

\* The seed advanced n generations, as a dense matrix.
SeedAdvanced(n) == toDenseArray(Trajectory(board, n)[n + 1])

\* C15: the cache never changes an answer.  For an existing board, in every
\* reachable state of the cache, a getStateAtGeneration(id, G) with G >= 1
\* in which no backend threw returned the seed advanced exactly G
\* generations; getNextGeneration(id) returned, and returns, the same matrix
\* as getStateAtGeneration(id, 1); and repeating the call returns an equal
\* result.
C15_CacheNeverChangesAnswer ==
    /\ \A id \in BoardIds :
          Exists(id) =>
            getNextGeneration(World, NoFault, id).result
              = getStateAtGeneration(World, NoFault, id, 1).result
    /\ ( /\ lastCall.operation = "getStateAtGeneration"
         /\ lastCall.generations >= 1
         /\ Exists(lastCall.boardId)
         /\ ~ Threw(lastCall) )
          => /\ lastCall.result = Success(SeedAdvanced(lastCall.generations))
             /\ getStateAtGeneration(World, NoFault, lastCall.boardId,
                                      lastCall.generations).result
                  = lastCall.result
    /\ ( /\ lastCall.operation = "getNextGeneration"
         /\ Exists(lastCall.boardId)
         /\ ~ Threw(lastCall) )
          => /\ lastCall.result = Success(SeedAdvanced(1))
             /\ getNextGeneration(World, NoFault, lastCall.boardId).result
                  = lastCall.result

\* getStateAtGeneration answered from the cache alone, for a generation past
\* the first intermediate write, with a matrix that is not the seed.
C15_Witness ==
    /\ lastCall.operation = "getStateAtGeneration"
    /\ lastCall.generations > intermediateCacheInterval
    /\ lastCall.result.success
    /\ Len(lastCall.trace) = 1
    /\ lastCall.result.data # input
    /\ lastCall.result.data # SeedAdvanced(1)

\* What the operation of the call returns with no cache client and healthy
\* backends (createBoard: on the collection before the call, which is
\* empty).
WithoutCache(call) ==
    CASE call.operation = "createBoard" ->
           createBoard([WorldWithoutCache EXCEPT !.db = {}], NoFault, input,
                       call.boardId).result
      [] call.operation = "getBoardById" ->
           getBoardById(WorldWithoutCache, NoFault, call.boardId).result
      [] call.operation = "getNextGeneration" ->
           getNextGeneration(WorldWithoutCache, NoFault, call.boardId).result
      [] call.operation = "getStateAtGeneration" ->
           getStateAtGeneration(WorldWithoutCache, NoFault, call.boardId,
                                call.generations).result

\* C16: a failing cache is never surfaced: an operation in which a cache get
\* or setEx threw returns the success it returns with no cache configured.
C16_CacheFailureNotSurfaced ==
    (CacheThrew(lastCall) /\ WithoutCache(lastCall).success)
        => lastCall.result = WithoutCache(lastCall)

\* C17: a createBoard that returned a failure persisted no record and wrote
\* no cache entry, and every persisted record's boardId was returned in a
\* success.
C17_FailedCreateLeavesNothing ==
    /\ (lastCall.operation = "createBoard" /\ ~ lastCall.result.success)
          => Writes(lastCall) = {}
    /\ \A d \in database : d.boardId \in returnedIds

\* C18 as stated: an operation in which a backend threw returns a failure
\* whose error is the thrown Error's message, or the fallback message of
\* the operation that was called.
C18_FailureCarriesOwnFallback ==
    Threw(lastCall) =>
        /\ lastCall.caught # <<>>
        /\ lastCall.result =
             Failure(IF lastCall.caught[1].value.isError
                     THEN lastCall.caught[1].value.message
                     ELSE fallbackMessage(lastCall.operation))

\* C18, amended: an operation in which a backend threw returns a failure
\* whose error is the thrown Error's message, or, for a value that is not an
\* Error, the fallback message of the operation whose catch block caught
\* it: the called operation's own, or getBoardById's when the throw happened
\* inside the getBoardById that getNextGeneration and getStateAtGeneration
\* call.
C18_FailureCarriesCatcherFallback ==
    Threw(lastCall) =>
        /\ Len(lastCall.caught) = 1
        /\ lastCall.caught[1].by \in {lastCall.operation, "getBoardById"}
        /\ lastCall.result =
             Failure(IF lastCall.caught[1].value.isError
                     THEN lastCall.caught[1].value.message
                     ELSE fallbackMessage(lastCall.caught[1].by))

\* getStateAtGeneration returned getBoardById's fallback message: the
\* findOne of the nested getBoardById threw a value that is not an Error.
C18_Witness ==
    /\ lastCall.operation = "getStateAtGeneration"
    /\ lastCall.caught # <<>>
    /\ lastCall.caught[1].by = "getBoardById"
    /\ ~ lastCall.caught[1].value.isError
    /\ \E k \in 1..Len(lastCall.trace) :
          lastCall.trace[k].call = "findOne" /\ lastCall.trace[k].threw
    /\ lastCall.result = Failure("Failed to fetch board")

\* C19: getStateAtGeneration(id, G) with G < 1 returns the failure
\* 'Generations must be >= 1' and makes no backend call: it reads and writes
\* no cache entry and does not query the boards collection, whether or not
\* the board exists and whatever the backends would do.
C19_RejectsGenerationsBelowOne ==
    /\ \A id \in BoardIds, fault \in Faults :
          \A generations \in { g \in GenerationChoices : g < 1 } :
             LET out == getStateAtGeneration(World, fault, id, generations)
             IN  /\ out.result = Failure("Generations must be >= 1")
                 /\ out.w = World
    /\ (lastCall.operation = "getStateAtGeneration" /\ lastCall.generations < 1)
          => /\ lastCall.result = Failure("Generations must be >= 1")
             /\ lastCall.trace = <<>>

\* Generation 0 was asked of an existing board whose cache holds entries.
C19_Witness ==
    /\ lastCall.operation = "getStateAtGeneration"
    /\ lastCall.generations = 0
    /\ Exists(lastCall.boardId)
    /\ DOMAIN cacheEntries # {}
    /\ ~ lastCall.result.success

\* ---------------------------------------------------- session properties

\* The session was opened with valid parameters for a board that was found.
ValidSession ==
    /\ parseConnectionParams(url) # <<>>
    /\ loadResult # NoResult
    /\ loadResult.success

\* C20: in a session opened with valid parameters for an existing board
\* whose channel stays open, the frames sent are one or more progress
\* frames, those of the detector's progress events in order, then exactly
\* one final frame with the detector's status, generation and state and a
\* period exactly when the status is oscillating; then the server closes
\* once, with code 1000 and reason 'Calculation complete'.  In no session is
\* a final frame followed by another frame, nor sent before the session's
\* end.
C20_ProgressThenFinalThenClose ==
    /\ \A k \in 1..Len(frames) :
          frames[k].type = "final" => (k = Len(frames) /\ sessionPc = "done")
    /\ (sessionPc = "done" /\ ValidSession /\ readyState # "CLOSED")
          => LET n     == Len(frames)
                 final == frames[n]
             IN  /\ n >= 2
                 /\ n = Len(progress) + 1
                 /\ \A k \in 1..(n - 1) :
                       frames[k] = progressFrame(progress[k])
                 /\ final.type = "final"
                 /\ final.status = result.data.status
                 /\ final.generation = result.data.generation
                 /\ final.state = result.data.state
                 /\ ("period" \in DOMAIN final)
                       <=> (result.data.status = "oscillating")
                 /\ ("period" \in DOMAIN final)
                       => final.period = result.data.period
                 /\ closes = << [code   |-> 1000,
                                 reason |-> "Calculation complete"] >>

\* A session on an open channel that ended with an oscillating final frame
\* after three progress frames.
C20_Witness ==
    /\ sessionPc = "done"
    /\ ValidSession
    /\ readyState = "CLOSING"
    /\ Len(frames) >= 4
    /\ frames[Len(frames)].type = "final"
    /\ frames[Len(frames)].status = "oscillating"

\* The frames that carry a generation: progress frames and the final frame.
Numbered(sent) ==
    SelectSeq(sent, LAMBDA f : f.type \in {"progress", "final"})

\* C21: within a session the generation never decreases from one frame to
\* the next, progress frames and the final frame counted together.
C21_GenerationNeverDecreases ==
    \A k \in 1..(Len(Numbered(frames)) - 1) :
        Numbered(frames)[k].generation <= Numbered(frames)[k + 1].generation

InvalidParametersError ==
    errorFrame("Invalid connection parameters. Required: boardId and maxAttempts")

\* The text is a decimal numeral of a positive integer.
IsPositiveInteger(text) ==
    /\ text # <<>>
    /\ \A k \in 1..Len(text) : \E d \in 1..10 : Digits[d] = text[k]
    /\ DigitsToNat(text) > 0

\* The URL lacks boardId or maxAttempts, or its maxAttempts is not a
\* positive integer.
MalformedUrl ==
    \/ url.boardId = <<>>
    \/ url.maxAttempts = <<>>
    \/ ~ IsPositiveInteger(url.maxAttempts[1])

\* C22: a session whose URL lacks boardId or maxAttempts, or whose
\* maxAttempts is not a positive integer, never queries the repository and
\* never runs the detector, and ends with exactly one frame, the error frame
\* 'Invalid connection parameters...', and one close, with code 1008.
C22_InvalidParametersRejected ==
    MalformedUrl =>
        /\ sessionPc \in {"connected", "done"}
        /\ loadResult = NoResult
        /\ pc = "idle"
        /\ progress = <<>>
        /\ computed = 0
        /\ sessionPc = "done" =>
              /\ frames = << InvalidParametersError >>
              /\ closes = << [code |-> 1008, reason |-> "Invalid parameters"] >>

BoardNotFoundError == errorFrame("Board not found")

\* The session asked for a board that the boards collection does not hold.
BoardAbsent ==
    /\ parseConnectionParams(url) # <<>>
    /\ \A d \in database : d.boardId # parseConnectionParams(url)[1].boardId

\* C23: a session opened for a boardId absent from the durable backend never
\* runs the detector and sends no progress or final frame; when it ends on a
\* channel the client has not closed before, exactly one frame was sent, the
\* error frame 'Board not found', followed by one close with code 1008.
C23_AbsentBoardRejected ==
    BoardAbsent =>
        /\ sessionPc \in {"connected", "loading", "done"}
        /\ pc = "idle"
        /\ progress = <<>>
        /\ computed = 0
        /\ \A k \in 1..Len(frames) : frames[k].type = "error"
        /\ (sessionPc = "done" /\ readyState # "CLOSED") =>
              /\ frames = << BoardNotFoundError >>
              /\ closes = << [code |-> 1008, reason |-> "Board not found"] >>

\* A session for an absent board has ended after the backend, which holds
\* another board, answered that there is no such board.
C23_Witness ==
    /\ BoardAbsent
    /\ database # {}
    /\ sessionPc = "done"
    /\ loadResult = Failure("Board not found")
    /\ frames = << BoardNotFoundError >>
    /\ closes = << [code |-> 1008, reason |-> "Board not found"] >>

\* Loading the board failed for another reason than its absence.
BackendUnavailable ==
    /\ loadResult # NoResult
    /\ ~ loadResult.success
    /\ loadResult.error # "Board not found"

\* C25: when loading the board fails because the durable backend is
\* unavailable, the session is closed with code 1011 and no 'Board not
\* found' frame is sent; that frame and the close 1008 mean that the board
\* is absent.
C25_BackendFailureClosesInternalError ==
    (sessionPc = "done" /\ BackendUnavailable) =>
        /\ \A k \in 1..Len(closes) : closes[k].code = 1011
        /\ \A k \in 1..Len(frames) : frames[k] # BoardNotFoundError

\* C26: a frame is written only while the channel's readyState is OPEN: once
\* the client's close has been observed no step of the session writes a
\* frame, and the handler still runs to its end, where it calls close once.
C26_NoFrameAfterClientClose ==
    /\ [][readyState # "OPEN" => frames' = frames]_vars
    /\ [](readyState = "CLOSED" =>
            /\ frames = <<>>
            /\ sessionPc = "done" => Len(closes) = 1)

\* The client closed during the load and the session then ran the detector
\* to an oscillating result without writing a frame.
C26_Witness ==
    /\ readyState = "CLOSED"
    /\ sessionPc = "done"
    /\ frames = <<>>
    /\ Len(progress) >= 3
    /\ result.success
    /\ result.data.status = "oscillating"
    /\ closes = << [code |-> 1000, reason |-> "Calculation complete"] >>

\* ------------------------------------- properties of the session's ending

\* The handler's promise was rejected and the rejection caught.
Rejected ==
    \E k \in 1..Len(closes) : closes[k].reason = "Internal server error"

NoFinalFrame == \A k \in 1..Len(frames) : frames[k].type # "final"

\* C24: when an exception leaves the session handler (the repository call
\* throws, or a frame send throws, in the progress callback or elsewhere),
\* no final frame has been or will be sent and the next step closes the
\* connection with code 1011; that close is the session's only one.
C24_ExceptionClosesInternalError ==
    /\ [](sessionPc = "rejected" => (NoFinalFrame /\ closes = <<>>))
    /\ [][sessionPc = "rejected" =>
            /\ closes' = << [code |-> 1011, reason |-> "Internal server error"] >>
            /\ frames' = frames
            /\ sessionPc' = "done"]_vars
    /\ [](Rejected =>
            /\ sessionPc = "done"
            /\ NoFinalFrame
            /\ Len(closes) = 1)

\* A frame send threw inside the progress callback after two progress frames
\* had been sent, and the connection was closed with code 1011.
C24_Witness ==
    /\ sessionPc = "done"
    /\ closes = << [code |-> 1011, reason |-> "Internal server error"] >>
    /\ Len(frames) >= 2
    /\ \A k \in 1..Len(frames) : frames[k].type = "progress"
    /\ pc = "loop"

\* The close each way through the handler ends with.
ExpectedClose ==
    IF Rejected THEN [code |-> 1011, reason |-> "Internal server error"]
    ELSE IF parseConnectionParams(url) = <<>>
    THEN [code |-> 1008, reason |-> "Invalid parameters"]
    ELSE IF ~ loadResult.success
    THEN [code |-> 1008, reason |-> "Board not found"]
    ELSE IF ~ result.success
    THEN [code |-> 1011, reason |-> "Cycle detection failed"]
    ELSE [code |-> 1000, reason |-> "Calculation complete"]

\* C27: every accepted connection's session ends; the server calls close
\* exactly once, at the end, with 1008 for invalid parameters and for a
\* failed board load, 1011 for a detector failure and for an exception, 1000
\* for success; 1000 is used only after the detector returned a success,
\* and the detector computes at most maxAttempts generations.
C27_SessionEndsWithOneClose ==
    /\ <>(sessionPc = "done")
    /\ [](sessionPc # "done" => closes = <<>>)
    /\ [](sessionPc = "done" => closes = << ExpectedClose >>)
    /\ [](\A k \in 1..Len(closes) :
            closes[k].code = 1000 =>
                (pc = "returned" /\ result # NoResult /\ result.success))
    /\ [](sessionPc \in {"detecting", "rejected", "done"} /\ pc # "idle"
            => computed <= maxAttempts)
    /\ [][sessionPc = "done" => UNCHANGED vars]_vars

\* A session that ended in success after the detector ran out of attempts.
C27_Witness ==
    /\ sessionPc = "done"
    /\ closes = << [code |-> 1000, reason |-> "Calculation complete"] >>
    /\ result.data.status = "timeout"
    /\ computed = maxAttempts
    /\ maxAttempts = MaxSessionAttempts

\* ------------------------------------------ properties of sparse boards

\* C28: a board built by fromSparseArray holds no live cell outside the
\* rectangle [0, rows) x [0, cols) of its dimensions, and neither does the
\* generation computed from it.
C28_SparseBoardInsideRectangle ==
    "this" \in built =>
        /\ AllInBounds(thisBoard)
        /\ AllInBounds(calculateNextGeneration(thisBoard))

\* ------------------------------------- properties of the history window

\* C29: every period detectCycle returns is at most 20, and a run on a pure
\* oscillator of period above 20 ends in timeout with generation maxAttempts.
C29_LongPeriodsTimeOut ==
    (pc = "returned" /\ result.success) =>
        /\ result.data.status = "oscillating" => result.data.period <= 20
        /\ FirstReturn(board, 20) = 0 =>
              /\ result.data.status = "timeout"
              /\ result.data.generation = maxAttempts

\* The first generation of b, among 0..limit, that equals its successor;
\* -1 when there is none.
RECURSIVE FirstFixedPointFrom(_, _, _)
FirstFixedPointFrom(cur, gen, limit) ==
    IF gen > limit THEN -1
    ELSE IF calculateNextGeneration(cur).state = cur.state THEN gen
    ELSE FirstFixedPointFrom(calculateNextGeneration(cur), gen + 1, limit)

\* C30: when the seed's trajectory has its first fixed point at generation G
\* and G < maxAttempts, detectCycle returns 'stable' with generation G, also
\* when the transient before G is longer than the 20-entry history.
C30_FixedPointReportedStable ==
    pc = "returned" =>
        LET G == FirstFixedPointFrom(board, 0, maxAttempts - 1)
        IN  G >= 0 =>
              /\ result.success
              /\ result.data.status = "stable"
              /\ result.data.generation = G

\* A stable result after a transient longer than the history buffer.
C30_Witness ==
    /\ Returned("stable")
    /\ result.data.generation > maxHistorySize
    /\ FirstFixedPointFrom(board, 0, maxAttempts - 1) = result.data.generation

\* The matrix the board boardId was created from, by a call of createBoard
\* among the concurrent calls.
RaceSeeds(boardId) ==
    { calls[p].boardInput : p \in { q \in 1..Len(calls) :
                                      /\ calls[q].operation = "createBoard"
                                      /\ calls[q].boardId = boardId } }

\* Every cache entry holds what the claim says: a generation key the seed
\* advanced that many generations, a current key the durable record.
CacheEntriesRight ==
    \A key \in DOMAIN cacheEntries :
        LET text == cacheEntries[key].value
        IN  IF Len(key) = 4
            THEN \E seed \in RaceSeeds(key[2]) :
                    parseArray(text) =
                       toDenseArray(Trajectory(fromDenseArray(seed),
                                               key[4])[key[4] + 1])
            ELSE \E d \in database :
                    /\ d.boardId = key[2]
                    /\ parseBoard(text).state = d.state
                    /\ parseBoard(text).dimensions = d.dimensions

\* C31: under every interleaving of concurrent createBoard, getBoardById,
\* getNextGeneration and getStateAtGeneration calls, every value stored under
\* a generation key is the dense form of the board's seed advanced that many
\* generations and every value stored under a current key is the durable
\* record's state and dimensions; a write to a key that holds a value writes
\* an equal value.
C31_RacingWritersWriteEqualValues ==
    /\ [] CacheEntriesRight
    /\ [][\A key \in DOMAIN cacheEntries \cap DOMAIN cacheEntries' :
             cacheEntries'[key].value = cacheEntries[key].value]_vars

\* Two calls that both missed the cache have both computed and written the
\* same generation key.
C31_Witness ==
    \E p, q \in 1..Len(calls) :
        /\ p # q
        /\ calls[p].at = "returned" /\ calls[q].at = "returned"
        /\ calls[p].result.success /\ calls[q].result.success
        /\ calls[p].current # <<>> /\ calls[q].current # <<>>
        /\ calls[p].generations = calls[q].generations
        /\ calls[p].generations >= intermediateCacheInterval
        /\ generationKey(MintedId, calls[p].generations)
              \in DOMAIN cacheEntries

\* The step is a call of getStateAtGeneration: the last call is one, and the
\* step is not the expiry of a cache entry (no call removes an entry).
IsGetStateAtGenerationStep ==
    /\ lastCall'.operation = "getStateAtGeneration"
    /\ ~ \E key \in DOMAIN cacheEntries :
            DOMAIN cacheEntries' = DOMAIN cacheEntries \ {key}

\* The generation keys a computing getStateAtGeneration(boardId, G) is to
\* write: the multiples of the interval up to G, and G.
DueGenerations(generations) ==
    { k \in 1..generations : k % intermediateCacheInterval = 0 }
      \cup {generations}

\* The keys the call wrote.
KeysWritten(call) == { call.trace[k].key : k \in Writes(call) }

\* The call loaded the board: it read the board's cache entry or queried
\* the boards collection.
LoadedBoard(call) ==
    \E k \in 1..Len(call.trace) :
        \/ call.trace[k].call = "findOne"
        \/ call.trace[k].key = currentKey(call.boardId)

\* The cache holds a value under the generation key of the call about to be
\* made.
HitsCache(call) ==
    LET key == generationKey(call.boardId, call.generations)
    IN  key \in DOMAIN cacheEntries /\ cacheEntries[key].value # <<>>

\* After the step every due generation key holds that generation's state.
DueKeysHoldTheirGeneration(call) ==
    \A k \in DueGenerations(call.generations) :
        LET key == generationKey(call.boardId, k)
        IN  /\ key \in DOMAIN cacheEntries'
            /\ cacheEntries'[key].value = stringifyMatrix(SeedAdvanced(k))

\* A hit writes nothing and does not load the board.
HitWritesNothing(call) ==
    /\ cacheEntries' = cacheEntries
    /\ Writes(call) = {}
    /\ ~ LoadedBoard(call)

\* C32: a getStateAtGeneration(id, G) call that misses the cache and
\* succeeds with a cache client writes exactly the keys generation:k for
\* the multiples k of 10 up to G and generation:G, each holding that
\* generation's state; a call that hits the cache for G writes nothing and
\* does not load the board.
C32_WritesExactlyTheGenerationKeys ==
    [][ ( /\ IsGetStateAtGenerationStep
          /\ redisClient
          /\ lastCall'.result.success )
        => IF HitsCache(lastCall')
           THEN HitWritesNothing(lastCall')
           ELSE /\ KeysWritten(lastCall')
                     = { generationKey(lastCall'.boardId, k) :
                           k \in DueGenerations(lastCall'.generations) }
                /\ DueKeysHoldTheirGeneration(lastCall') ]_vars

\* C32 as it holds: the generation keys a missing, succeeding call writes are
\* exactly those of the multiples of 10 up to G and of G, each holding that
\* generation's state; besides them it writes board:{id}:current, and only
\* that, when the nested getBoardById missed the cache; a call that hits the
\* cache for G writes nothing and does not load the board.
C32_WritesGenerationKeysAndReadThrough ==
    [][ ( /\ IsGetStateAtGenerationStep
          /\ redisClient
          /\ lastCall'.result.success )
        => IF HitsCache(lastCall')
           THEN HitWritesNothing(lastCall')
           ELSE /\ KeysWritten(lastCall') \ {currentKey(lastCall'.boardId)}
                     = { generationKey(lastCall'.boardId, k) :
                           k \in DueGenerations(lastCall'.generations) }
                /\ DueKeysHoldTheirGeneration(lastCall')
                /\ currentKey(lastCall'.boardId) \in KeysWritten(lastCall')
                     <=> currentKey(lastCall'.boardId)
                           \notin DOMAIN cacheEntries ]_vars

\* A call past the first intermediate write whose board entry had expired:
\* it wrote the board's entry, generation 10 and generation 11.
C32_Witness ==
    /\ lastCall.operation = "getStateAtGeneration"
    /\ lastCall.result.success
    /\ redisClient
    /\ lastCall.generations > intermediateCacheInterval
    /\ KeysWritten(lastCall)
         = { currentKey(lastCall.boardId),
             generationKey(lastCall.boardId, intermediateCacheInterval),
             generationKey(lastCall.boardId, lastCall.generations) }
    /\ lastCall.result.data # input

\* The step is a call of getBoardById (no call removes a cache entry).
IsGetBoardByIdStep ==
    /\ lastCall'.operation = "getBoardById"
    /\ ~ \E key \in DOMAIN cacheEntries :
            DOMAIN cacheEntries' = DOMAIN cacheEntries \ {key}

\* The k-th backend call of the operation was `name` and returned.
ReturnedFrom(call, k, name) ==
    /\ Len(call.trace) >= k
    /\ call.trace[k].call = name
    /\ ~ call.trace[k].threw

\* C33: getBoardById follows the read-through protocol: on a cache hit it
\* returns the cached state and dimensions without querying the durable
\* backend; on a cache miss with the record present it returns the record and
\* writes board:{id}:current with the record's state and dimensions; on a
\* cache miss with the record absent it returns the failure 'Board not
\* found' and writes nothing to the cache.
C33_ReadThroughProtocol ==
    [][ ( /\ IsGetBoardByIdStep
          /\ redisClient
          /\ ReturnedFrom(lastCall', 1, "get") )
        => LET call == lastCall'
               key  == currentKey(call.boardId)
           IN  IF key \in DOMAIN cacheEntries
                  /\ cacheEntries[key].value # <<>>
               THEN /\ call.result
                         = Success(BoardRecord(
                              call.boardId,
                              parseBoard(cacheEntries[key].value).state,
                              parseBoard(cacheEntries[key].value).dimensions))
                    /\ Len(call.trace) = 1
                    /\ cacheEntries' = cacheEntries
               ELSE ReturnedFrom(call, 2, "findOne") =>
                      IF Exists(call.boardId)
                      THEN \E d \in database :
                              /\ d.boardId = call.boardId
                              /\ call.result
                                   = Success(BoardRecord(d.boardId, d.state,
                                                         d.dimensions))
                              /\ key \in DOMAIN cacheEntries'
                              /\ parseBoard(cacheEntries'[key].value).state
                                   = d.state
                              /\ parseBoard(cacheEntries'[key].value).dimensions
                                   = d.dimensions
                      ELSE /\ call.result = Failure("Board not found")
                           /\ Writes(call) = {}
                           /\ cacheEntries' = cacheEntries ]_vars

\* C34: a GameBoard is never changed by its own operations or through
\* getState: after any calls of calculateNextGeneration, toDenseArray,
\* toStateHash, isCellAlive and getState, and any additions to and deletions
\* from the Sets getState returned, the board's live cells and dimensions are
\* those it was constructed with, and each reading method returned what it
\* returns on the board as constructed.
C34_BoardNeverChanged ==
    /\ receiver.dimensions = board.dimensions
    /\ heap[receiver.state] = board.state
    /\ observed # NoResult =>
          CASE observed.method = "calculateNextGeneration" ->
                 observed.value = toDenseArray(calculateNextGeneration(board))
            [] observed.method = "toDenseArray" -> observed.value = input
            [] observed.method = "toStateHash" ->
                 observed.value = toStateHash(board)
            [] observed.method = "isCellAlive" ->
                 observed.value[3]
                   = (input[observed.value[1] + 1][observed.value[2] + 1] = 1)

\* A client added a coordinate to and deleted one from a Set getState
\* returned, and toStateHash was called on the board after that.
C34_Witness ==
    /\ observed # NoResult
    /\ observed.method = "toStateHash"
    /\ observed.changedView
    /\ \E ref \in views :
          /\ heap[ref] \ board.state # {}
          /\ board.state \ heap[ref] # {}

\* The maxAttempts parameter is the decimal numeral of an integer from 1 to
\* the schema's maximum.
AttemptsWithinSchema ==
    /\ url.maxAttempts # <<>>
    /\ IsPositiveInteger(url.maxAttempts[1])
    /\ DigitsToNat(url.maxAttempts[1]) <= MaxAttemptsLimit

\* C35: a streaming session never starts a detector run with maxAttempts
\* outside 1..100000 or with a maxAttempts parameter that is not a well-formed
\* integer: such a connection receives an error frame and a close with code
\* 1008 instead.
C35_AttemptsWithinSchema ==
    ~ AttemptsWithinSchema =>
        /\ pc = "idle"
        /\ computed = 0
        /\ sessionPc = "done" =>
              /\ Len(frames) = 1
              /\ frames[1].type = "error"
              /\ Len(closes) = 1
              /\ closes[1].code = 1008

\* ------------------------------------------------- properties of the route

\* A request has been answered.
Answered == "status" \in DOMAIN response

\* The id of the request is no UUID, or its generation is no integer >= 1.
InvalidRequest ==
    \/ response.params.boardId \notin BoardIds
    \/ coerceNumber(response.params.generation) = <<>>
    \/ coerceNumber(response.params.generation)[1] < 1

\* The repository was called and failed because a backend call threw.
BackendFailure ==
    /\ "success" \in DOMAIN response.result
    /\ ~ response.result.success
    /\ \E k \in 1..Len(response.trace) : response.trace[k].threw
    /\ response.result.error \notin {"Board not found",
                                     "Generations must be >= 1"}

\* The request was valid, no board of its id was stored, and no backend call
\* made the repository fail.
RequestedBoardAbsent == ~ InvalidRequest /\ ~ response.stored /\ ~ BackendFailure

\* C36: GET /boards/{id}/state/{G} answers 404 exactly when the board is
\* absent, 400 exactly when G or the id is invalid, and 500 when the
\* repository fails for a backend reason, which is never answered with 400.
C36_StatusByKindOfFailure ==
    Answered =>
        /\ response.status = 404 <=> RequestedBoardAbsent
        /\ response.status = 400 <=> InvalidRequest
        /\ BackendFailure => response.status = 500

\* The same without the backend failures: what the handler does tell apart.
StatusOfRequestFailures ==
    (Answered /\ ~ BackendFailure) =>
        /\ response.status = 404 <=> RequestedBoardAbsent
        /\ response.status = 400 <=> InvalidRequest
        /\ response.status = 200 <=> (~ InvalidRequest /\ response.stored)

\* ------------------------------------- properties of the server singleton

\* Entry k of the log is a shutdown that succeeded: a promise resolved, by
\* the close callback or at the call.
SuccessfulShutdown(k) ==
    wsLog[k].op \in {"closed", "shutdown"} /\ wsLog[k].settled = "resolved"

\* Among the first k entries there is an initialize with no successful
\* shutdown after it.
Initialized(k) ==
    \E j \in 1..k :
        /\ wsLog[j].op = "initialize"
        /\ \A m \in (j + 1)..k : ~ SuccessfulShutdown(m)

\* The instance the last initialize among the first k entries returned.
InstanceAt(k) ==
    LET j == CHOOSE n \in 1..k :
                 /\ wsLog[n].op = "initialize"
                 /\ \A m \in (n + 1)..k : wsLog[m].op # "initialize"
    IN  wsLog[j].instance

\* The servers constructed during the first k entries.
ServersAt(k) == IF k = 0 THEN 0 ELSE wsLog[k].servers

\* C37: in every sequence of initialize, get and shutdown calls and close
\* callbacks, getWebSocketServer returns the instance iff an initialize has
\* happened with no successful shutdown since and else throws 'WebSocket
\* server not initialized'; an initialize while initialized returns the same
\* instance and constructs no server; a shutdown with no instance resolves
\* at once; a close that reports an error rejects the promise and leaves the
\* instance in place.
C37_SingletonLifecycle ==
    /\ (wss # 0) <=> Initialized(Len(wsLog))
    /\ wss # 0 => wss = InstanceAt(Len(wsLog))
    /\ \A k \in 1..Len(wsLog) :
          LET e == wsLog[k]
          IN  /\ e.op = "get" =>
                    IF Initialized(k - 1)
                    THEN e.message = "" /\ e.instance = InstanceAt(k - 1)
                    ELSE e.message = "WebSocket server not initialized"
              /\ (e.op = "initialize" /\ Initialized(k - 1)) =>
                    /\ e.instance = InstanceAt(k - 1)
                    /\ e.servers = ServersAt(k - 1)
              /\ (e.op = "shutdown" /\ ~ Initialized(k - 1)) =>
                    e.settled = "resolved"
              /\ (e.op = "closed" /\ e.settled # "resolved") =>
                    /\ e.settled = "rejected"
                    /\ promises[e.promise].state = "rejected"
                    /\ Initialized(k) <=> Initialized(k - 1)

\* An initialize while initialized, a shutdown whose close reported an error,
\* a get after it that returned the instance, and a second shutdown.
C37_Witness ==
    /\ Len(wsLog) = MaxWsEvents
    /\ wsLog[1].op = "initialize" /\ wsLog[2].op = "initialize"
    /\ wsLog[3].op = "shutdown" /\ wsLog[3].settled = "pending"
    /\ wsLog[4].op = "closed" /\ wsLog[4].settled = "rejected"
    /\ wsLog[5].op = "get" /\ wsLog[5].instance = 1
    /\ wsLog[6].op = "shutdown"
    /\ wss = 1

\* ------------------------------------------------ properties of the client

\* Some socket is closed by this step with a code other than 1000.
ClosedAbnormally ==
    /\ Len(sockets') = Len(sockets)
    /\ \E s \in 1..Len(sockets) :
          /\ sockets[s].state # "CLOSED"
          /\ sockets'[s].state = "CLOSED"
          /\ sockets'[s].code # 1000

\* This step calls onError and onClose and sets no timer.
GaveUp ==
    /\ timers' = timers
    /\ lastDelivered' =
          <<Callback("onError",
                     "Connection lost. Max reconnection attempts reached."),
            Callback("onClose", "")>>

\* C38: whatever the server does, one client makes at most 3 reconnection
\* attempts; when a socket is closed with a code other than 1000 after the
\* third, the client calls onError('Connection lost. Max reconnection
\* attempts reached.') and onClose and sets no timer.
C38_ReconnectionBounded ==
    /\ [] (reconnections <= maxReconnectAttempts)
    /\ [][(ClosedAbnormally /\ reconnections >= maxReconnectAttempts)
             => GaveUp]_vars

\* Since the first disconnect() no socket has been constructed.
NoSocketSinceDisconnect ==
    disconnected # <<>> => Len(sockets) = disconnected[1]

\* Since the first disconnect() no message has been handed to onMessage.
NoMessageSinceDisconnect ==
    disconnected # <<>> =>
        \A k \in 1..Len(lastDelivered) :
            lastDelivered[k].callback # "onMessage"

\* C39: once disconnect() has been called, the client constructs no socket
\* and hands no message to its callbacks, whatever the order of disconnect(),
\* a pending reconnection timer and the close events of the old socket.
C39_QuietAfterDisconnect ==
    NoSocketSinceDisconnect /\ NoMessageSinceDisconnect

====
